---- MODULE Spec2Model ----
(***************************************************************************)
(* Model of services/market-visual-runner-bff/main.go: the in-memory       *)
(* time-series store (loadFromDirs, loadFromDirsRange, applyPoint), the    *)
(* ingestion scanner (ingestFile and its two encodings), the store's       *)
(* reader/writer lock, and the websocket request loop (handleWebsocket).   *)
(*                                                                         *)
(* Time is in milliseconds since the Unix epoch, as in the store.  All     *)
(* modelled instants lie in the first minutes of epoch day 0 so that the   *)
(* arithmetic of the code (minute truncation, second/millisecond scaling,  *)
(* range filters) is done on the values the code would compute.            *)
(***************************************************************************)
EXTENDS Integers, Sequences, FiniteSets, TLC

(***************************************************************************)
(* Bounds of the model.                                                    *)
(***************************************************************************)
\* number of requests one connection reads before the client closes it
MaxRequests == 2
\* number of full reloads the periodic reloader performs after the preload
MaxReloads == 2
\* number of changes the environment (uploaders, operators) makes on disk
MaxEnvSteps == 2
\* number of times the clock advances, and by how much (milliseconds)
MaxTicks == 2
ClockStep == 30000
\* the wall clock at start (milliseconds)
NowInit == 240000

(***************************************************************************)
(* Program constants.                                                      *)
(***************************************************************************)
\* parseTimestamp: a value below this cut-off is in seconds.  The source's
\* 10_000_000_000 is beyond the model's integers; the cut-off is scaled so
\* that the modelled raw values fall on both sides of it.
SecondsCutoff == 100000
\* bufio.Scanner's initial read, counted in lines of the modelled files
\* (4096 bytes in the library): what the Scanner has buffered after the
\* first Scan is lost to the csv.Reader created on the same file.
ScanBufLines == 2
\* parseResolutionValue: resolution used when the request gives none (0)
DefaultResolution == 300
\* handleWebsocket, increase_resolution: tick budget when ticks <= 0
DefaultTicks == 5000
\* main: cacheTTL := time.Minute, in milliseconds
cacheTTL == 60000

Roots == <<"r1", "r2">>
Symbols == {"A", "B"}
NoErr == "nil"

Max(a, b) == IF a >= b THEN a ELSE b
Min(a, b) == IF a <= b THEN a ELSE b

(***************************************************************************)
(* Maps.  A Go map is a function; m[k] of an absent key is the zero value. *)
(***************************************************************************)
EmptyMap == << >>
MapPut(m, k, v) == [x \in DOMAIN m \cup {k} |-> IF x = k THEN v ELSE m[x]]
Has(m, k) == k \in DOMAIN m

(***************************************************************************)
(* Parsing of fields.  A field that does not parse as a number is -1 in    *)
(* the modelled files.                                                     *)
(***************************************************************************)
\* parseTimestamp
parseTimestamp(value) ==
  IF value < 0 THEN [ok |-> FALSE, ts |-> 0]
  ELSE IF value < SecondsCutoff THEN [ok |-> TRUE, ts |-> value * 1000]
  ELSE [ok |-> TRUE, ts |-> value]

\* parseFloat
parseFloat(value) ==
  IF value < 0 THEN [ok |-> FALSE, v |-> 0] ELSE [ok |-> TRUE, v |-> value]

\* indexOf: position of a column name in the header (0-based, -1 if absent)
indexOf(values, key) ==
  IF \E i \in 1..Len(values) : values[i] = key
  THEN (CHOOSE i \in 1..Len(values) :
          values[i] = key /\ \A j \in 1..(i-1) : values[j] # key) - 1
  ELSE -1

\* parsePrice: first parseable of last, bid, ask
parsePrice(record, idxLast, idxBid, idxAsk) ==
  IF idxLast >= 0 /\ idxLast < Len(record) /\ parseFloat(record[idxLast + 1]).ok
  THEN parseFloat(record[idxLast + 1])
  ELSE IF idxBid >= 0 /\ idxBid < Len(record) /\ parseFloat(record[idxBid + 1]).ok
  THEN parseFloat(record[idxBid + 1])
  ELSE IF idxAsk >= 0 /\ idxAsk < Len(record) /\ parseFloat(record[idxAsk + 1]).ok
  THEN parseFloat(record[idxAsk + 1])
  ELSE [ok |-> FALSE, v |-> 0]

(***************************************************************************)
(* The index under construction: the local variables of a rebuild.         *)
(*   quality : symbol -> set of minute keys (map[int64]bool, all true)     *)
(*   prices  : symbol -> minute key -> minutePrice                         *)
(*   startTS, endTS : the window bounds                                    *)
(*   applied : history of the applyPoint calls of the rebuild              *)
(*   scanned : history of what the rebuild scanned: the files on disk, the *)
(*             roots' states and the time filter                           *)
(***************************************************************************)
EmptyIndex ==
  [startTS |-> 0, endTS |-> 0, quality |-> EmptyMap, prices |-> EmptyMap,
   applied |-> {}, scanned |-> [none |-> TRUE]]

\* time.UnixMilli(ts).UTC().Truncate(time.Minute).Unix()
MinuteKey(ts) == (ts \div 60000) * 60

\* applyPoint under a bug: the coverage is keyed by the second, not the minute
applyPointNoTrunc(symbol, ts, price, idx) ==
  LET key == MinuteKey(ts)
      q == IF Has(idx.quality, symbol) THEN idx.quality[symbol] ELSE {}
      p == IF Has(idx.prices, symbol) THEN idx.prices[symbol] ELSE EmptyMap
      newer == ~Has(p, key) \/ ts > p[key].ts
  IN [idx EXCEPT
        !.quality = MapPut(idx.quality, symbol, q \cup {ts \div 1000}),
        !.prices = MapPut(idx.prices, symbol,
                          IF newer THEN MapPut(p, key, [ts |-> ts, price |-> price])
                          ELSE p),
        !.applied = @ \cup {[symbol |-> symbol, ts |-> ts, price |-> price]}]

\* applyPoint: the symbol is the file's parent directory; minTS and maxTS
\* are received and never written
applyPoint(symbol, ts, price, idx) ==
  LET key == MinuteKey(ts)
      q == IF Has(idx.quality, symbol) THEN idx.quality[symbol] ELSE {}
      p == IF Has(idx.prices, symbol) THEN idx.prices[symbol] ELSE EmptyMap
      newer == ~Has(p, key) \/ ts > p[key].ts
  IN [idx EXCEPT
        !.quality = MapPut(idx.quality, symbol, q \cup {key}),
        !.prices = MapPut(idx.prices, symbol,
                          IF newer THEN MapPut(p, key, [ts |-> ts, price |-> price])
                          ELSE p),
        !.applied = @ \cup {[symbol |-> symbol, ts |-> ts, price |-> price]}]

(***************************************************************************)
(* Lines of a file.                                                        *)
(*   [k |-> "blank"]                      a blank line                     *)
(*   [k |-> "pipe", comma, ts, nf, price] timestamp|f0:f1:...  (comma: the *)
(*                                        line also contains a ",")        *)
(*   [k |-> "hdr", cols]                  a header of column names         *)
(*   [k |-> "badhdr"]                     a header the csv parser rejects  *)
(*   [k |-> "row", rec]                   a delimited record               *)
(*   [k |-> "badrow"]                     a record the csv parser rejects  *)
(*   [k |-> "toolong"]                    a line beyond the Scanner's      *)
(*                                        maximum token size               *)
(***************************************************************************)
Blank == [k |-> "blank"]
Pipe(ts, nf, price) == [k |-> "pipe", comma |-> FALSE, ts |-> ts, nf |-> nf, price |-> price]
PipeComma(ts, nf, price) == [k |-> "pipe", comma |-> TRUE, ts |-> ts, nf |-> nf, price |-> price]
Hdr(cols) == [k |-> "hdr", cols |-> cols]
Row(rec) == [k |-> "row", rec |-> rec]

\* ingestCedroLine: never fails; a malformed line is skipped
ingestCedroLine(line, symbol, idx) ==
  IF line.k # "pipe" THEN idx                       \* len(parts) < 2
  ELSE IF ~parseTimestamp(line.ts).ok THEN idx
  ELSE IF line.nf < 5 THEN idx
  ELSE IF ~parseFloat(line.price).ok THEN idx
  ELSE applyPoint(symbol, parseTimestamp(line.ts).ts, parseFloat(line.price).v, idx)

\* the lines of the pipe encoding after the first, until the Scanner stops
RECURSIVE ingestCedroRest(_, _, _, _)
ingestCedroRest(lines, i, symbol, idx) ==
  IF i > Len(lines) THEN [err |-> NoErr, idx |-> idx]
  ELSE IF lines[i].k = "toolong" THEN [err |-> "token too long", idx |-> idx]
  ELSE IF lines[i].k = "blank" THEN ingestCedroRest(lines, i + 1, symbol, idx)
  ELSE ingestCedroRest(lines, i + 1, symbol, ingestCedroLine(lines[i], symbol, idx))

\* the column names parseCSVHeader yields for a first line
HeaderCols(line) == IF line.k = "hdr" THEN line.cols ELSE << >>

\* ingestCSVWithHeaders, the loop over reader.Read() from record i on
RECURSIVE ingestCSVRows(_, _, _, _, _)
ingestCSVRows(lines, i, cols, symbol, idx) ==
  LET idxTime == IF indexOf(cols, "time_msc") # -1 THEN indexOf(cols, "time_msc")
                 ELSE indexOf(cols, "t")
      idxLast == indexOf(cols, "last")
      idxBid == indexOf(cols, "bid")
      idxAsk == indexOf(cols, "ask")
      idxPrice == indexOf(cols, "p")
  IN
  IF i > Len(lines) THEN [err |-> NoErr, idx |-> idx]                \* io.EOF
  ELSE IF lines[i].k = "badrow" THEN [err |-> "csv parse error", idx |-> idx]
  ELSE IF lines[i].k = "blank" THEN ingestCSVRows(lines, i + 1, cols, symbol, idx)
  ELSE
    LET record == IF lines[i].k = "row" THEN lines[i].rec ELSE <<-1>>
        tsr == IF idxTime >= Len(record) THEN [ok |-> FALSE, ts |-> 0]
               ELSE parseTimestamp(record[idxTime + 1])
        pr1 == parsePrice(record, idxLast, idxBid, idxAsk)
        pr == IF ~pr1.ok /\ idxPrice >= 0 /\ idxPrice < Len(record)
              THEN parseFloat(record[idxPrice + 1]) ELSE pr1
    IN IF ~tsr.ok \/ ~pr.ok
       THEN ingestCSVRows(lines, i + 1, cols, symbol, idx)
       ELSE ingestCSVRows(lines, i + 1, cols, symbol,
                          applyPoint(symbol, tsr.ts, pr.v, idx))

\* ingestCSVWithHeaders: reader is positioned after the Scanner's buffer
ingestCSVWithHeaders(lines, cols, symbol, idx) ==
  IF indexOf(cols, "time_msc") = -1 /\ indexOf(cols, "t") = -1
  THEN [err |-> "missing time column", idx |-> idx]
  ELSE ingestCSVRows(lines, Min(Len(lines), ScanBufLines) + 1, cols, symbol, idx)

\* ingestFile
ingestFile(file, idx) ==
  LET lines == file.lines IN
  IF ~file.readable THEN [err |-> "open failed", idx |-> idx]
  ELSE IF Len(lines) = 0 THEN [err |-> NoErr, idx |-> idx]      \* Scan() false, Err() nil
  ELSE IF lines[1].k = "toolong" THEN [err |-> "token too long", idx |-> idx]
  ELSE IF lines[1].k = "blank" THEN [err |-> NoErr, idx |-> idx]
  ELSE IF lines[1].k = "pipe" /\ ~lines[1].comma
       THEN ingestCedroRest(lines, 2, file.symbol,
                            ingestCedroLine(lines[1], file.symbol, idx))
  ELSE IF lines[1].k = "badhdr" THEN [err |-> "csv parse error", idx |-> idx]
  ELSE ingestCSVWithHeaders(lines, HeaderCols(lines[1]), file.symbol, idx)

(***************************************************************************)
(* The data directories.  A file is root/date/symbol/name:                 *)
(*   date     : the day the date directory names (days since the epoch),   *)
(*              -1 for a name that is not YYYY-MM-DD                       *)
(*   hm       : <<hour, minute>> of a name HH_MM, << >> for any other name *)
(*              (the uploaders name their files <milliseconds>.csv)        *)
(*   csv      : the name ends in .csv                                      *)
(*   listable : os.ReadDir of the file's symbol directory succeeds         *)
(*   readable : os.Open of the file succeeds                               *)
(* Files is in the order os.ReadDir walks each root: by date, symbol, name.*)
(***************************************************************************)
File(root, symbol, hm, lines) ==
  [root |-> root, date |-> 0, symbol |-> symbol, hm |-> hm, ms |-> 0,
   csv |-> TRUE, listable |-> TRUE, readable |-> TRUE, lines |-> lines]

Files == <<
  \* r1/1970-01-01/A/00_01.csv : pipe encoding, some malformed lines
  File("r1", "A", <<0, 1>>,
       <<Pipe(60, 5, 10), Pipe(-1, 5, 11), Blank, Pipe(90, 5, 12),
         Pipe(70, 3, 13), Pipe(61, 5, -1)>>),
  \* r1/1970-01-01/B/00_02.csv : two ticks of the same millisecond
  File("r1", "B", <<0, 2>>, <<Pipe(125, 5, 20), Pipe(125, 5, 21)>>),
  \* r1/1970-01-01/B/250000.csv : named by a millisecond timestamp
  [File("r1", "B", << >>, <<Pipe(250500, 5, 40)>>) EXCEPT !.ms = 250000],
  \* r2/1970-01-01/A/00_03.csv : header encoding
  File("r2", "A", <<0, 3>>,
       <<Hdr(<<"t", "last", "p">>), Row(<<185, 30, -1>>), Row(<<200, -1, 32>>),
         Row(<<-1, 5, 5>>), Row(<<61, 33>>)>>),
  \* r2/1970-01-01/B/00_02.csv : a header without a time column
  File("r2", "B", <<0, 2>>, <<Hdr(<<"a", "b">>), Row(<<130, 50>>)>>),
  \* r2/1970-01-01/B/00_04.csv : ticks of minutes 1 and 4
  File("r2", "B", <<0, 4>>, <<Pipe(65, 5, 50), Pipe(245, 5, 51)>>),
  \* r2/1970-01-01/B/02_05.csv : a late file holding a tick of minute 0
  File("r2", "B", <<2, 5>>, <<Pipe(30, 5, 60)>>),
  \* r2/1970-01-01/C/02_01.csv, 02_02.csv, 06_01.csv, 06_02.csv : files that
  \* end a window of 120, 121, 360 and 361 minutes after 00:01
  File("r2", "C", <<2, 1>>, <<Pipe(7260, 5, 70)>>),
  File("r2", "C", <<2, 2>>, <<Pipe(7320, 5, 71)>>),
  File("r2", "C", <<6, 1>>, <<Pipe(21660, 5, 72)>>),
  File("r2", "C", <<6, 2>>, <<Pipe(21720, 5, 73)>>),
  \* r2/1970-01-02/C/00_01.csv, 00_02.csv : 1440 and 1441 minutes
  [File("r2", "C", <<0, 1>>, <<Pipe(86460, 5, 74)>>) EXCEPT !.date = 1],
  [File("r2", "C", <<0, 2>>, <<Pipe(86520, 5, 75)>>) EXCEPT !.date = 1],
  \* r2/1970-01-08/C/00_01.csv, 00_02.csv : 10080 and 10081 minutes
  [File("r2", "C", <<0, 1>>, <<Pipe(604860000, 5, 76)>>) EXCEPT !.date = 7],
  [File("r2", "C", <<0, 2>>, <<Pipe(604920000, 5, 77)>>) EXCEPT !.date = 7]
>>
FileIds == 1..Len(Files)
\* the files that appear while the server runs
UploadIds == 1..5

\* parseDirFileTimestamp
parseDirFileTimestamp(date, hm) ==
  IF date < 0 THEN [ok |-> FALSE, ts |-> 0]
  ELSE IF Len(hm) # 2 THEN [ok |-> FALSE, ts |-> 0]
  ELSE IF hm[1] < 0 \/ hm[1] > 23 THEN [ok |-> FALSE, ts |-> 0]
  ELSE IF hm[2] < 0 \/ hm[2] > 59 THEN [ok |-> FALSE, ts |-> 0]
  ELSE [ok |-> TRUE, ts |-> ((date * 24 + hm[1]) * 60 + hm[2]) * 60000]

\* updateRangeFromPath
updateRangeFromPath(date, hm, idx) ==
  LET r == parseDirFileTimestamp(date, hm) IN
  IF ~r.ok THEN idx
  ELSE [idx EXCEPT
          !.startTS = IF idx.startTS = 0 \/ r.ts < idx.startTS THEN r.ts ELSE @,
          !.endTS = IF idx.endTS = 0 \/ r.ts > idx.endTS THEN r.ts ELSE @]

\* the time filter of loadFromDirRange; a full load has no filter
NoRange == [on |-> FALSE, startMs |-> 0, endMs |-> 0]
Range(startMs, endMs) == [on |-> TRUE, startMs |-> startMs, endMs |-> endMs]
InRange(f, range) ==
  LET r == parseDirFileTimestamp(f.date, f.hm) IN
  ~range.on \/ (r.ok /\ r.ts >= range.startMs /\ r.ts <= range.endMs)

\* loadFromDir and loadFromDirRange: the walk over one root from file i on
RECURSIVE loadFromDir(_, _, _, _, _)
loadFromDir(root, present, range, i, idx) ==
  IF i > Len(Files) THEN [err |-> NoErr, idx |-> idx]
  ELSE IF i \notin present \/ Files[i].root # root
       THEN loadFromDir(root, present, range, i + 1, idx)
  ELSE IF ~Files[i].listable THEN [err |-> "readdir failed", idx |-> idx]
  ELSE IF ~Files[i].csv \/ ~InRange(Files[i], range)
       THEN loadFromDir(root, present, range, i + 1, idx)
  ELSE LET r == ingestFile(Files[i],
                           updateRangeFromPath(Files[i].date, Files[i].hm, idx))
       IN IF r.err # NoErr THEN r
          ELSE loadFromDir(root, present, range, i + 1, r.idx)

(***************************************************************************)
(* A root directory is "ok", "missing" (os.Stat reports not-exist),        *)
(* "denied" (os.Stat fails otherwise) or "unlistable" (os.Stat succeeds    *)
(* and os.ReadDir fails).                                                  *)
(***************************************************************************)
RootStates == {"ok", "missing", "denied", "unlistable"}

\* loadFromDirs under a bug: a failing root is skipped like a missing one
RECURSIVE loadRootsSkipFailing(_, _, _, _, _)
loadRootsSkipFailing(k, present, roots, range, idx) ==
  IF k > Len(Roots) THEN [err |-> NoErr, idx |-> idx]
  ELSE IF roots[Roots[k]] # "ok"
       THEN loadRootsSkipFailing(k + 1, present, roots, range, idx)
  ELSE LET r == loadFromDir(Roots[k], present, range, 1, idx)
       IN IF r.err # NoErr THEN r
          ELSE loadRootsSkipFailing(k + 1, present, roots, range, r.idx)

\* loadFromDirs and loadFromDirsRange: the loop over rootDirs from root k on
RECURSIVE loadRoots(_, _, _, _, _)
loadRoots(k, present, roots, range, idx) ==
  IF k > Len(Roots) THEN [err |-> NoErr, idx |-> idx]
  ELSE IF roots[Roots[k]] = "missing" THEN loadRoots(k + 1, present, roots, range, idx)
  ELSE IF roots[Roots[k]] = "denied" THEN [err |-> "stat failed", idx |-> idx]
  ELSE IF roots[Roots[k]] = "unlistable" THEN [err |-> "readdir failed", idx |-> idx]
  ELSE LET r == loadFromDir(Roots[k], present, range, 1, idx)
       IN IF r.err # NoErr THEN r
          ELSE loadRoots(k + 1, present, roots, range, r.idx)

\* the scan of a rebuild: the fresh local index, filled from the directories
Scan(present, roots, range) == loadRoots(1, present, roots, range, EmptyIndex)

(***************************************************************************)
(* Reading the store.                                                      *)
(***************************************************************************)
\* the order of strings on the modelled symbols
SymSeq == <<"A", "B", "C", "Z">>
SymRank(sym) == CHOOSE i \in 1..Len(SymSeq) : SymSeq[i] = sym
InSet(S) == LET Test(x) == x \in S IN SelectSeq(SymSeq, Test)

\* Go's integer division truncates toward zero
GoDiv(a, b) == IF a >= 0 THEN a \div b ELSE -((-a) \div b)

\* a price that is nil
Null == -1

\* dataStore.listSymbols: the sorted keys of qualityBySymbol
listSymbols(quality) == InSet(DOMAIN quality)

\* the price of one bucket under a bug: a bucket shorter than a minute takes
\* the minute of its start
bucketPriceStartMinute(points, bs, be, res) ==
  IF res < 60
  THEN LET key == (bs \div 60) * 60
       IN IF Has(points, key) THEN points[key].price ELSE Null
  ELSE LET first == (bs \div 60) * 60
           seen == {t \in DOMAIN points :
                      t >= first /\ t <= be /\ (t - first) % 60 = 0}
       IN IF seen = {} THEN Null
          ELSE points[CHOOSE t \in seen : \A u \in seen : u <= t].price

\* buildPriceOverview, the price of one bucket [bs, be] (seconds)
bucketPrice(points, bs, be, res) ==
  IF res < 60
  THEN LET key == (be \div 60) * 60
       IN IF Has(points, key) THEN points[key].price ELSE Null
  ELSE LET first == (bs \div 60) * 60
           seen == {t \in DOMAIN points :
                      t >= first /\ t <= be /\ (t - first) % 60 = 0}
       IN IF seen = {} THEN Null
          ELSE points[CHOOSE t \in seen : \A u \in seen : u <= t].price

\* buildPriceOverview under a bug: the bucket that holds end is left out
buildPriceOverviewNoLastBucket(points, start, end, resolutionSeconds) ==
  LET s == start \div 1000
      e0 == end \div 1000
      res == IF resolutionSeconds <= 0 THEN 300 ELSE resolutionSeconds
      e == IF e0 < s THEN s ELSE e0
      buckets == (e - s) \div res
      bStart(i) == s + (i - 1) * res
      bEnd(i) == Min(bStart(i) + res - 1, e)
      prices == [i \in 1..buckets |-> bucketPrice(points, bStart(i), bEnd(i), res)]
  IN IF DOMAIN points = {} THEN [ok |-> FALSE, data |-> [nil |-> TRUE]]
     ELSE IF \A i \in 1..buckets : prices[i] = Null
     THEN [ok |-> FALSE, data |-> [nil |-> TRUE]]
     ELSE [ok |-> TRUE,
           data |-> [resolution |-> res, prices |-> prices,
                     datetimes |-> [i \in 1..buckets |-> bStart(i)]]]

\* buildPriceOverview under a bug: a payload of nulls is returned as found
buildPriceOverviewAllNull(points, start, end, resolutionSeconds) ==
  LET s == start \div 1000
      e0 == end \div 1000
      res == IF resolutionSeconds <= 0 THEN 300 ELSE resolutionSeconds
      e == IF e0 < s THEN s ELSE e0
      buckets == (e - s) \div res + 1
      bStart(i) == s + (i - 1) * res
      bEnd(i) == Min(bStart(i) + res - 1, e)
      prices == [i \in 1..buckets |-> bucketPrice(points, bStart(i), bEnd(i), res)]
  IN IF DOMAIN points = {} THEN [ok |-> FALSE, data |-> [nil |-> TRUE]]
     ELSE [ok |-> TRUE,
           data |-> [resolution |-> res, prices |-> prices,
                     datetimes |-> [i \in 1..buckets |-> bStart(i)]]]

\* dataStore.buildPriceOverview on the points read under the read lock;
\* start and end are instants in milliseconds, datetimes are in seconds
buildPriceOverview(points, start, end, resolutionSeconds) ==
  LET s == start \div 1000
      e0 == end \div 1000
      res == IF resolutionSeconds <= 0 THEN 300 ELSE resolutionSeconds
      e == IF e0 < s THEN s ELSE e0
      buckets == (e - s) \div res + 1
      bStart(i) == s + (i - 1) * res
      bEnd(i) == Min(bStart(i) + res - 1, e)
      prices == [i \in 1..buckets |-> bucketPrice(points, bStart(i), bEnd(i), res)]
  IN IF DOMAIN points = {} THEN [ok |-> FALSE, data |-> [nil |-> TRUE]]
     ELSE IF \A i \in 1..buckets : prices[i] = Null
     THEN [ok |-> FALSE, data |-> [nil |-> TRUE]]
     ELSE [ok |-> TRUE,
           data |-> [resolution |-> res, prices |-> prices,
                     datetimes |-> [i \in 1..buckets |-> bStart(i)]]]

\* the points of a symbol: s.priceBySymbol[symbol], nil when absent
PointsOf(prices, symbol) == IF Has(prices, symbol) THEN prices[symbol] ELSE EmptyMap

\* the symbols ordered by descending count, then by name
RECURSIVE sortByDensity(_, _)
sortByDensity(S, quality) ==
  IF S = {} THEN << >>
  ELSE LET Before(a, b) ==
             \/ Cardinality(quality[a]) > Cardinality(quality[b])
             \/ /\ Cardinality(quality[a]) = Cardinality(quality[b])
                /\ SymRank(a) < SymRank(b)
           first == CHOOSE a \in S : \A b \in S \ {a} : Before(a, b)
       IN <<first>> \o sortByDensity(S \ {first}, quality)

\* buildTimeframeResponse under a bug: a span on a threshold takes the coarser
\* resolution
buildTimeframeResponseAtThreshold(view, clock) ==
  IF view.startTS <= 0 \/ view.endTS <= 0 \/ DOMAIN view.qualityBySymbol = {}
  THEN [start |-> clock \div 1000, end |-> clock \div 1000, resolution |-> "1m",
        frameQuality |-> << >>]
  ELSE
    LET startMinute == view.startTS \div 60000
        endMinute == view.endTS \div 60000
        totalMinutes == Max(endMinute - startMinute, 0)
        resolutionMinutes ==
          IF totalMinutes >= 7 * 24 * 60 THEN 12 * 60
          ELSE IF totalMinutes >= 24 * 60 THEN 60
          ELSE IF totalMinutes >= 6 * 60 THEN 10
          ELSE IF totalMinutes >= 2 * 60 THEN 5
          ELSE 1
        label == IF totalMinutes >= 7 * 24 * 60 THEN "12h"
                 ELSE IF totalMinutes >= 24 * 60 THEN "1h"
                 ELSE IF totalMinutes >= 6 * 60 THEN "10m"
                 ELSE IF totalMinutes >= 2 * 60 THEN "5m"
                 ELSE "1m"
        bucketCount == totalMinutes \div resolutionMinutes + 1
        quality == view.qualityBySymbol
        symbols == sortByDensity(DOMAIN quality, quality)
        index(minute) == GoDiv((minute \div 60) - startMinute, resolutionMinutes)
        flags(sym) ==
          [j \in 1..bucketCount |->
             IF \E minute \in quality[sym] : index(minute) = j - 1 THEN 1 ELSE 0]
    IN [start |-> view.startTS \div 1000, end |-> view.endTS \div 1000,
        resolution |-> label,
        frameQuality |-> [k \in 1..Len(symbols) |->
                            [symbol |-> symbols[k], quality |-> flags(symbols[k])]]]

\* dataStore.buildTimeframeResponse on the fields read under the read lock;
\* start and end are formatted to the second
buildTimeframeResponse(view, clock) ==
  IF view.startTS <= 0 \/ view.endTS <= 0 \/ DOMAIN view.qualityBySymbol = {}
  THEN [start |-> clock \div 1000, end |-> clock \div 1000, resolution |-> "1m",
        frameQuality |-> << >>]
  ELSE
    LET startMinute == view.startTS \div 60000
        endMinute == view.endTS \div 60000
        totalMinutes == Max(endMinute - startMinute, 0)
        resolutionMinutes ==
          IF totalMinutes > 7 * 24 * 60 THEN 12 * 60
          ELSE IF totalMinutes > 24 * 60 THEN 60
          ELSE IF totalMinutes > 6 * 60 THEN 10
          ELSE IF totalMinutes > 2 * 60 THEN 5
          ELSE 1
        label == IF totalMinutes > 7 * 24 * 60 THEN "12h"
                 ELSE IF totalMinutes > 24 * 60 THEN "1h"
                 ELSE IF totalMinutes > 6 * 60 THEN "10m"
                 ELSE IF totalMinutes > 2 * 60 THEN "5m"
                 ELSE "1m"
        bucketCount == totalMinutes \div resolutionMinutes + 1
        quality == view.qualityBySymbol
        symbols == sortByDensity(DOMAIN quality, quality)
        index(minute) == GoDiv((minute \div 60) - startMinute, resolutionMinutes)
        flags(sym) ==
          [j \in 1..bucketCount |->
             IF \E minute \in quality[sym] : index(minute) = j - 1 THEN 1 ELSE 0]
    IN [start |-> view.startTS \div 1000, end |-> view.endTS \div 1000,
        resolution |-> label,
        frameQuality |-> [k \in 1..Len(symbols) |->
                            [symbol |-> symbols[k], quality |-> flags(symbols[k])]]]

(***************************************************************************)
(* Request fields.  A start or end string is empty, a number (seconds, or  *)
(* milliseconds above the cut-off; a formatted date is the number of its   *)
(* seconds) or text that is no date.                                       *)
(***************************************************************************)
TimeEmpty == [k |-> "empty", v |-> 0]
TimeBad == [k |-> "bad", v |-> 0]
TimeNum(v) == [k |-> "num", v |-> v]

\* parseDateTime
parseDateTime(value) ==
  IF value.k = "empty" THEN [err |-> "invalid datetime", t |-> 0]
  ELSE IF value.k = "bad" THEN [err |-> "invalid datetime format", t |-> 0]
  ELSE IF value.v > SecondsCutoff THEN [err |-> NoErr, t |-> value.v]
  ELSE [err |-> NoErr, t |-> value.v * 1000]

\* parseStartEndStrings under a bug: the order of start and end is not checked
parseStartEndStringsNoOrder(startRaw, endRaw, clock) ==
  LET nowMinute == (clock \div 60000) * 60000
      ps == parseDateTime(startRaw)
      pe == parseDateTime(endRaw)
      start == IF startRaw.k # "empty" THEN ps.t ELSE nowMinute - 60 * 60000
      end == IF endRaw.k # "empty" THEN pe.t ELSE nowMinute
  IN IF startRaw.k # "empty" /\ ps.err # NoErr
     THEN [err |-> ps.err, start |-> 0, end |-> 0]
     ELSE IF endRaw.k # "empty" /\ pe.err # NoErr
     THEN [err |-> pe.err, start |-> 0, end |-> 0]
     ELSE [err |-> NoErr, start |-> start, end |-> end]

\* parseStartEndStrings
parseStartEndStrings(startRaw, endRaw, clock) ==
  LET nowMinute == (clock \div 60000) * 60000
      ps == parseDateTime(startRaw)
      pe == parseDateTime(endRaw)
      start == IF startRaw.k # "empty" THEN ps.t ELSE nowMinute - 60 * 60000
      end == IF endRaw.k # "empty" THEN pe.t ELSE nowMinute
  IN IF startRaw.k # "empty" /\ ps.err # NoErr
     THEN [err |-> ps.err, start |-> 0, end |-> 0]
     ELSE IF endRaw.k # "empty" /\ pe.err # NoErr
     THEN [err |-> pe.err, start |-> 0, end |-> 0]
     ELSE IF end < start
     THEN [err |-> "end must be after start", start |-> 0, end |-> 0]
     ELSE [err |-> NoErr, start |-> start, end |-> end]

\* parseResolutionValue
parseResolutionValue(seconds) ==
  IF seconds = 0 THEN [err |-> NoErr, v |-> DefaultResolution]
  ELSE IF seconds < 0
  THEN [err |-> "resolution must be a positive integer in seconds", v |-> 0]
  ELSE [err |-> NoErr, v |-> seconds]

\* computeResolutionSecondsForTicks under a bug: the quotient is not rounded up
computeResolutionSecondsForTicksFloor(start, end, ticks) ==
  LET totalSeconds == (end - start) \div 1000
      steps == ticks - 1
      seconds == totalSeconds \div steps
  IN IF ticks <= 1 THEN 60
     ELSE IF end < start THEN 60
     ELSE IF totalSeconds <= 0 THEN 60
     ELSE IF seconds < 1 THEN 1
     ELSE seconds

\* computeResolutionSecondsForTicks
computeResolutionSecondsForTicks(start, end, ticks) ==
  LET totalSeconds == (end - start) \div 1000
      steps == ticks - 1
      seconds == IF totalSeconds % steps # 0 THEN totalSeconds \div steps + 1
                 ELSE totalSeconds \div steps
  IN IF ticks <= 1 THEN 60
     ELSE IF end < start THEN 60
     ELSE IF totalSeconds <= 0 THEN 60
     ELSE IF seconds < 1 THEN 1
     ELSE seconds

(***************************************************************************)
(* Sessions.                                                               *)
(***************************************************************************)
\* the zero computeState, as resetState builds it
ZeroState(clock) ==
  [computeMode |-> FALSE, rangeStart |-> 0, rangeEnd |-> 0, markers |-> EmptyMap,
   ticksRequested |-> 0, lastSymbol |-> "", rangeStartTime |-> "",
   rangeEndTime |-> "", resolution |-> "", customResolutionSeconds |-> 0,
   updatedAt |-> clock]

\* a nil *computeState
NilState == [nil |-> TRUE]

\* sessionManager.getState
getState(m, id) == IF Has(m, id) THEN m[id] ELSE NilState

\* toComputeState under a bug: the markers are not copied
toComputeStateNoMarkers(p) ==
  [computeMode |-> p.computeMode, rangeStart |-> p.rangeStart,
   rangeEnd |-> p.rangeEnd, markers |-> EmptyMap,
   ticksRequested |-> p.ticksRequested, lastSymbol |-> p.lastSymbol,
   rangeStartTime |-> p.rangeStartTime, rangeEndTime |-> p.rangeEndTime,
   resolution |-> p.resolution,
   customResolutionSeconds |-> p.customResolutionSeconds, updatedAt |-> 0]

\* computeStatePayload.toComputeState
toComputeState(p) ==
  [computeMode |-> p.computeMode, rangeStart |-> p.rangeStart,
   rangeEnd |-> p.rangeEnd, markers |-> p.markers,
   ticksRequested |-> p.ticksRequested, lastSymbol |-> p.lastSymbol,
   rangeStartTime |-> p.rangeStartTime, rangeEndTime |-> p.rangeEndTime,
   resolution |-> p.resolution,
   customResolutionSeconds |-> p.customResolutionSeconds, updatedAt |-> 0]

\* sessionManager.setState
setState(m, id, state, clock) ==
  IF id = "" THEN m
  ELSE MapPut(m, id, [state EXCEPT !.updatedAt = clock])

\* sessionManager.updateRange; the times are stored formatted
updateRange(m, id, start, end, rangeStart, rangeEnd, computeMode, clock) ==
  LET state == IF Has(m, id) THEN m[id] ELSE ZeroState(0) IN
  IF id = "" THEN m
  ELSE MapPut(m, id,
         [state EXCEPT !.rangeStart = rangeStart, !.rangeEnd = rangeEnd,
                       !.rangeStartTime = ToString(start),
                       !.rangeEndTime = ToString(end),
                       !.computeMode = IF computeMode = "absent" THEN @
                                       ELSE computeMode = "true",
                       !.updatedAt = clock])

\* resetState under a bug: every stored session is reset
resetStateAll(m, id, clock) ==
  IF id = "" THEN m ELSE [x \in DOMAIN m \cup {id} |-> ZeroState(clock)]

\* sessionManager.resetState
resetState(m, id, clock) == IF id = "" THEN m ELSE MapPut(m, id, ZeroState(clock))

(***************************************************************************)
(* State.                                                                  *)
(***************************************************************************)
VARIABLES
  disk,       \* the files present under the roots (indices into Files)
  rootState,  \* root -> RootStates
  envSteps,   \* number of changes made on disk so far
  now,        \* the wall clock, in milliseconds
  store,      \* dataStore: startTS, endTS, qualityBySymbol, priceBySymbol
  storeSrc,   \* history: for each field of the store, the rebuilt index the
              \* field's value was taken from
  storeMu,    \* dataStore.mu: [writer, readers, pending]
  cache,      \* timeframeCache: updatedAt (0 is the zero time), payload, and
              \* history: src, the index the payload was built from
  cacheMu,    \* timeframeCache.mu: the process holding it exclusively
  sessions,   \* sessionManager.sessions: id -> the computeState pointed to
  sessMu,     \* sessionManager.mu: the process holding it exclusively
  serial,     \* history: the table that setState, updateRange and resetState
              \* produce when each call is applied whole, in the order in
              \* which the calls held m.mu
  pc,         \* process -> position in its code
  loc,        \* process -> its local variables
  reloads,    \* number of reloads the periodic reloader has started
  sessionID,  \* connection -> the session id of its handshake
  handshake,  \* connection -> the mvr_session cookie of the upgrade request
              \* and the value of the Set-Cookie header of the reply ("" when
              \* there is none)
  requests,   \* connection -> the requests read so far
  responses,  \* connection -> the responses written so far
  ticksIn,    \* a tick sequence handed to applyPoint in order
  applyPos,   \* number of ticks of ticksIn applied so far
  applyIdx,   \* the index after applying them
  client      \* the chart client (App.vue): its sockets, wsRef, wsRequests,
              \* wsRequestSeq, reconnect timer, the messages in flight and
              \* the promises sendWsRequest has returned

vars == <<disk, rootState, envSteps, now, store, storeSrc, storeMu, cache,
          cacheMu, sessions, sessMu, serial, pc, loc, reloads, sessionID, handshake, requests,
          responses, ticksIn, applyPos, applyIdx, client>>

envVars == <<disk, rootState, envSteps>>
storeVars == <<store, storeSrc, storeMu>>
cacheVars == <<cache, cacheMu>>
sessVars == <<sessions, sessMu, serial>>
connVars == <<sessionID, handshake, requests, responses>>
applyVars == <<ticksIn, applyPos, applyIdx>>

Conns == {"c1", "c2"}
Procs == {"main"} \cup Conns
None == "none"

\* newDataStore
newDataStore ==
  [startTS |-> 0, endTS |-> 0, qualityBySymbol |-> EmptyMap,
   priceBySymbol |-> EmptyMap]

StoreFields == {"startTS", "endTS", "qualityBySymbol", "priceBySymbol"}

\* a wsRequest with every field at its zero value
NoRequest ==
  [type |-> "", id |-> "", symbol |-> "", symbols |-> << >>, start |-> TimeEmpty,
   end |-> TimeEmpty, rangeStart |-> 0, rangeEnd |-> 0, computeMode |-> "absent",
   resolution |-> 0, ticks |-> 0, state |-> [present |-> FALSE]]

\* the chart client before it is mounted: wsRef null, wsRequests empty,
\* wsRequestSeq 0, no reconnect timer
NoClient ==
  [phase |-> "created", sockets |-> << >>, wsRef |-> 0,
   wsReconnectTimer |-> FALSE, wsRequests |-> {}, timeouts |-> {},
   wsRequestSeq |-> 0, wire |-> {}, promises |-> << >>]

\* no pointer to a computeState
NoObj == [id |-> "", live |-> FALSE, frozen |-> NilState, versions |-> {}]

\* the local variables of a process
NoLocals ==
  [req |-> NoRequest,          \* msg, the request being handled
   range |-> NoRange,          \* start/end of a range load
   idx |-> EmptyIndex,         \* startTS, endTS, quality, prices of a rebuild
   err |-> NoErr,              \* the error of the last load
   rootsSeen |-> << >>,        \* history: the roots' states at the last scan
   start |-> 0, end |-> 0,     \* parsed start and end of the request
   resolution |-> 0,           \* resolutionSeconds
   symbols |-> << >>,          \* the symbols still to visit
   items |-> << >>,            \* the items built so far
   view |-> newDataStore,      \* the store fields read so far
   viewSrc |-> << >>,          \* history: where each field read came from
   before |-> newDataStore,    \* history: the store when the swap began
   seen |-> [at |-> 0],        \* history: the build that ended while this
                               \* caller of getOrBuild waited for c.mu.Lock()
   obj |-> NoObj,              \* state, the *computeState of the handler
   out |-> NilState,           \* the fields the encoder has read
   k |-> 0,                    \* number of fields read or assigned so far
   stamp |-> 0,                \* state.UpdatedAt as setState stamps it
   was |-> NilState,           \* history: the object when updateRange began
   built |-> [nil |-> TRUE],   \* the payload buildTimeframeResponse returned
   floor |-> EmptyIndex,       \* history: the index of the last reload that
                               \* was complete when getOrBuild was called
   done |-> EmptyIndex]        \* history: the index of the last load that
                               \* the reloader completed

(***************************************************************************)
(* The environment: uploaders write files, roots come and go.              *)
(***************************************************************************)
Upload(f) ==
  /\ envSteps < MaxEnvSteps
  /\ f \notin disk
  /\ disk' = disk \cup {f}
  /\ envSteps' = envSteps + 1
  /\ UNCHANGED <<rootState, now, storeVars, cacheVars, sessVars, pc, loc,
                 reloads, connVars, applyVars, client>>

SetRoot(r, st) ==
  /\ envSteps < MaxEnvSteps
  /\ rootState[r] # st
  /\ rootState' = [rootState EXCEPT ![r] = st]
  /\ envSteps' = envSteps + 1
  /\ UNCHANGED <<disk, now, storeVars, cacheVars, sessVars, pc, loc,
                 reloads, connVars, applyVars, client>>

(***************************************************************************)
(* dataStore.mu, a sync.RWMutex.  A Lock call first becomes the pending    *)
(* writer, which keeps new readers out, then waits for the readers that    *)
(* hold the mutex to leave.                                                *)
(***************************************************************************)
\* Lock under a bug: the writer does not wait for the readers
CanLockIgnoringReaders(mu) == mu.writer = None

\* Lock succeeds when nobody holds the mutex
CanLock(mu) == mu.writer = None /\ mu.readers = {}

\* RLock under a bug: the readers also wait while a rebuild scans
CanRLockUnlessScanning(mu) ==
  mu.pending = None /\ \A p \in Procs : pc[p] # "scan"

\* RLock succeeds when no writer holds the mutex or waits for it
CanRLock(mu) == mu.pending = None

(***************************************************************************)
(* A rebuild: loadFromDirs (range off) or loadFromDirsRange (range on) run *)
(* by process p.  The scan fills fresh local maps; the four assignments to *)
(* the store are made one by one while p holds the mutex exclusively.      *)
(***************************************************************************)
(***************************************************************************)
(* The disk and the roots of SpecLive, and the scans that its requests ask *)
(* for.                                                                    *)
(***************************************************************************)
LiveDisk == {1, 2}
LiveRoots == [r \in {"r1", "r2"} |-> "ok"]
LiveWindows == {<<60, 120>>, <<60, 180>>}
LiveRanges ==
  {NoRange} \cup
  {Range(r.start, r.end) :
     r \in {parseStartEndStrings(TimeNum(w[1]), TimeNum(w[2]), NowInit) :
              w \in LiveWindows}}
LiveScans == [range \in LiveRanges |-> Scan(LiveDisk, LiveRoots, range)]

\* Scan, with its results on the initial disk of SpecLive tabulated once: the
\* value is Scan's for every argument
ScanOf(present, roots, range) ==
  IF present = LiveDisk /\ roots = LiveRoots /\ range \in LiveRanges
  THEN LiveScans[range]
  ELSE Scan(present, roots, range)

\* the scan succeeded: p goes on to s.mu.Lock()
LoadScanOk(p) ==
  LET r == ScanOf(disk, rootState, loc[p].range) IN
  /\ pc[p] = "scan"
  /\ r.err = NoErr
  /\ loc' = [loc EXCEPT
               ![p].idx = [r.idx EXCEPT !.scanned = [disk |-> disk,
                                                     roots |-> rootState,
                                                     range |-> loc[p].range]],
               ![p].err = NoErr,
               ![p].rootsSeen = rootState]
  /\ pc' = [pc EXCEPT ![p] = "lock"]

\* s.mu.Lock() is called: p is the pending writer
LoadLockCall(p) ==
  /\ pc[p] = "lock"
  /\ storeMu.pending = None
  /\ storeMu' = [storeMu EXCEPT !.pending = p]
  /\ pc' = [pc EXCEPT ![p] = "lock_wait"]
  /\ UNCHANGED <<envVars, now, store, storeSrc, cacheVars, sessVars, loc,
                 reloads, connVars, applyVars, client>>

\* s.mu.Lock() returns: the readers have left
LoadLock(p) ==
  /\ pc[p] = "lock_wait"
  /\ CanLock(storeMu)
  /\ storeMu' = [storeMu EXCEPT !.writer = p]
  /\ loc' = [loc EXCEPT ![p].before = store]
  /\ pc' = [pc EXCEPT ![p] = "w_startTS"]
  /\ UNCHANGED <<envVars, now, store, storeSrc, cacheVars, sessVars, reloads,
                 connVars, applyVars, client>>

LoadWriteStart(p) ==
  /\ pc[p] = "w_startTS"
  /\ store' = [store EXCEPT !.startTS = loc[p].idx.startTS]
  /\ storeSrc' = [storeSrc EXCEPT !.startTS = loc[p].idx]
  /\ pc' = [pc EXCEPT ![p] = "w_endTS"]
  /\ UNCHANGED <<envVars, now, storeMu, cacheVars, sessVars, loc, reloads,
                 connVars, applyVars, client>>

\* the assignment of endTS under a bug: the bound is added to the old one
LoadWriteEndAccumulates(p) ==
  /\ pc[p] = "w_endTS"
  /\ store' = [store EXCEPT !.endTS = @ + loc[p].idx.endTS]
  /\ storeSrc' = [storeSrc EXCEPT !.endTS = loc[p].idx]
  /\ pc' = [pc EXCEPT ![p] = "w_quality"]
  /\ UNCHANGED <<envVars, now, storeMu, cacheVars, sessVars, loc, reloads,
                 connVars, applyVars, client>>

LoadWriteEnd(p) ==
  /\ pc[p] = "w_endTS"
  /\ store' = [store EXCEPT !.endTS = loc[p].idx.endTS]
  /\ storeSrc' = [storeSrc EXCEPT !.endTS = loc[p].idx]
  /\ pc' = [pc EXCEPT ![p] = "w_quality"]
  /\ UNCHANGED <<envVars, now, storeMu, cacheVars, sessVars, loc, reloads,
                 connVars, applyVars, client>>

LoadWriteQuality(p) ==
  /\ pc[p] = "w_quality"
  /\ store' = [store EXCEPT !.qualityBySymbol = loc[p].idx.quality]
  /\ storeSrc' = [storeSrc EXCEPT !.qualityBySymbol = loc[p].idx]
  /\ pc' = [pc EXCEPT ![p] = "w_prices"]
  /\ UNCHANGED <<envVars, now, storeMu, cacheVars, sessVars, loc, reloads,
                 connVars, applyVars, client>>

\* the last assignment under a bug: s.mu.Unlock() is missing
LoadWritePricesNoUnlock(p) ==
  /\ pc[p] = "w_prices"
  /\ store' = [store EXCEPT !.priceBySymbol = loc[p].idx.prices]
  /\ storeSrc' = [storeSrc EXCEPT !.priceBySymbol = loc[p].idx]
  /\ loc' = [loc EXCEPT ![p].before = newDataStore]
  /\ pc' = [pc EXCEPT ![p] = "loaded"]
  /\ UNCHANGED <<envVars, now, storeMu, cacheVars, sessVars, reloads, connVars,
                 applyVars, client>>

\* the last assignment and s.mu.Unlock()
LoadWritePrices(p) ==
  /\ pc[p] = "w_prices"
  /\ store' = [store EXCEPT !.priceBySymbol = loc[p].idx.prices]
  /\ storeSrc' = [storeSrc EXCEPT !.priceBySymbol = loc[p].idx]
  /\ storeMu' = [storeMu EXCEPT !.writer = None, !.pending = None]
  /\ loc' = [loc EXCEPT ![p].before = newDataStore]
  /\ pc' = [pc EXCEPT ![p] = "loaded"]
  /\ UNCHANGED <<envVars, now, cacheVars, sessVars, reloads, connVars,
                 applyVars, client>>

\* timeframeCache.reset
cacheReset == [updatedAt |-> 0, payload |-> [nil |-> TRUE], src |-> EmptyIndex]

(***************************************************************************)
(* main: the preload, then startDataReloader.  A failed load is logged:    *)
(* the preload goes on to serve, the reloader waits for the next tick.     *)
(***************************************************************************)
MainScanOk ==
  /\ LoadScanOk("main")
  /\ UNCHANGED <<envVars, now, storeVars, cacheVars, sessVars, reloads,
                 connVars, applyVars, client>>

\* the reloader under a bug: the cache is reset after a failed load too
MainScanFailResets ==
  LET r == Scan(disk, rootState, NoRange) IN
  /\ pc["main"] = "scan"
  /\ r.err # NoErr
  /\ cacheMu = None
  /\ cache' = cacheReset
  /\ loc' = [loc EXCEPT !["main"].err = r.err, !["main"].rootsSeen = rootState]
  /\ pc' = [pc EXCEPT !["main"] = "wait"]
  /\ UNCHANGED <<envVars, now, storeVars, cacheMu, sessVars, reloads,
                 connVars, applyVars, client>>

\* loadFromDirs returned an error: it is logged; the preload goes on to
\* serve, the reloader waits for the next tick
MainScanFail ==
  LET r == Scan(disk, rootState, NoRange) IN
  /\ pc["main"] = "scan"
  /\ r.err # NoErr
  /\ loc' = [loc EXCEPT !["main"].err = r.err, !["main"].rootsSeen = rootState]
  /\ pc' = [pc EXCEPT !["main"] = "wait"]
  /\ UNCHANGED <<envVars, now, storeVars, cacheVars, sessVars, reloads,
                 connVars, applyVars, client>>

\* the reloader under a bug: the cache is not reset after a reload
MainLoadedNoReset ==
  /\ pc["main"] = "loaded"
  /\ pc' = [pc EXCEPT !["main"] = "wait"]
  /\ UNCHANGED <<envVars, now, storeVars, cacheVars, sessVars, loc, reloads,
                 connVars, applyVars, client>>

\* the reloader under a bug: reset does not wait for the cache's lock
MainLoadedResetsUnlocked ==
  /\ pc["main"] = "loaded"
  /\ IF reloads = 0 THEN UNCHANGED cache ELSE cache' = cacheReset
  /\ loc' = [loc EXCEPT !["main"].done = loc["main"].idx]
  /\ pc' = [pc EXCEPT !["main"] = "wait"]
  /\ UNCHANGED <<envVars, now, storeVars, cacheMu, sessVars, reloads,
                 connVars, applyVars, client>>

\* after the preload nothing is reset; after a reload, cache.reset()
MainLoaded ==
  /\ pc["main"] = "loaded"
  /\ IF reloads = 0 THEN UNCHANGED cache
     ELSE /\ cacheMu = None
          /\ cache' = cacheReset
  /\ loc' = [loc EXCEPT !["main"].done = loc["main"].idx]
  /\ pc' = [pc EXCEPT !["main"] = "wait"]
  /\ UNCHANGED <<envVars, now, storeVars, cacheMu, sessVars, reloads,
                 connVars, applyVars, client>>

\* the ticker fires
ReloadTick ==
  /\ pc["main"] = "wait"
  /\ reloads < MaxReloads
  /\ reloads' = reloads + 1
  /\ loc' = [loc EXCEPT !["main"].range = NoRange]
  /\ pc' = [pc EXCEPT !["main"] = "scan"]
  /\ UNCHANGED <<envVars, now, storeVars, cacheVars, sessVars, connVars,
                 applyVars, client>>

\* the server accepts connections once main is past the preload
Serving == pc["main"] = "wait" \/ reloads > 0

(***************************************************************************)
(* handleWebsocket: one worker per connection.  A connection is            *)
(* "connecting" until the upgrade, at "read" when it waits in ReadJSON,    *)
(* and "closed" after a read error.  The steps in between are the places   *)
(* where the handler waits for a lock.                                     *)
(***************************************************************************)
NewID(c) == IF c = "c1" THEN "n1" ELSE "n2"

\* wsResponse
Resp(type, id, data, message) ==
  [type |-> type, id |-> id, data |-> data, message |-> message]
\* a nil payload
NilData == [nil |-> TRUE]
StatusOk == [status |-> "ok"]

\* an error reply under a bug: the request id is left out
ErrorRespNoId(id, message) == Resp("error", "", NilData, message)

\* wsResponse{Type: "error", RequestID: msg.RequestID, Message: message}
ErrorResp(id, message) == Resp("error", id, NilData, message)

\* the handler reads req and answers it with resp in one step
Answer(c, req, resp) ==
  /\ requests' = [requests EXCEPT ![c] = Append(@, req)]
  /\ responses' = [responses EXCEPT ![c] = Append(@, resp)]

\* the handler answers the request it is working on and loops
Finish(c, resp) ==
  /\ responses' = [responses EXCEPT ![c] = Append(@, resp)]
  /\ loc' = [loc EXCEPT ![c] = [NoLocals EXCEPT !.err = loc[c].err,
                                                !.rootsSeen = loc[c].rootsSeen,
                                                !.seen = loc[c].seen]]
  /\ pc' = [pc EXCEPT ![c] = "read"]

AtRead(c) == pc[c] = "read" /\ Len(requests[c]) < MaxRequests

\* sessionManager.getOrCreateID under a bug: a new id for every connection
getOrCreateIDAlwaysNew(c, cookie) == [id |-> NewID(c), created |-> TRUE]

\* sessionManager.getOrCreateID: the cookie's value, or newSessionID()
getOrCreateID(c, cookie) ==
  IF cookie # "" THEN [id |-> cookie, created |-> FALSE]
  ELSE [id |-> NewID(c), created |-> TRUE]

\* the handshake: sessions.getOrCreateID, Set-Cookie when created, the upgrade
ConnOpen(c, cookie) ==
  /\ pc[c] = "connecting"
  /\ Serving
  /\ sessionID' = [sessionID EXCEPT ![c] = getOrCreateID(c, cookie).id]
  /\ handshake' = [handshake EXCEPT ![c] =
                     [cookie |-> cookie,
                      setCookie |-> IF getOrCreateID(c, cookie).created
                                    THEN getOrCreateID(c, cookie).id ELSE ""]]
  /\ pc' = [pc EXCEPT ![c] = "read"]
  /\ UNCHANGED <<envVars, now, storeVars, cacheVars, sessVars, loc, reloads,
                 requests, responses, applyVars, client>>

\* conn.ReadJSON fails: the client closed, or sent what is no request
ConnClose(c) ==
  /\ pc[c] = "read"
  /\ pc' = [pc EXCEPT ![c] = "closed"]
  /\ UNCHANGED <<envVars, now, storeVars, cacheVars, sessVars, loc, reloads,
                 connVars, applyVars, client>>

(***************************************************************************)
(* The session requests.  sessions maps an id to the computeState its      *)
(* pointer designates.  A handler that got a pointer from getState or      *)
(* resetState keeps it in obj: the pointer is live while the table still   *)
(* holds it, and the object is frozen once setState or resetState has put  *)
(* another object under the id.  conn.WriteJSON reads the object after     *)
(* m.mu is released, field by field; updateRange writes the fields of the  *)
(* object in the table one by one while it holds m.mu.                     *)
(***************************************************************************)
\* the fields updateRange assigns, in the order of its assignments
RangeFields ==
  <<"rangeStart", "rangeEnd", "rangeStartTime", "rangeEndTime", "computeMode",
    "updatedAt">>

\* the same fields in the order of the struct, which is the order in which
\* the encoder reads them; no other field is ever assigned in place
SerialFields ==
  <<"computeMode", "rangeStart", "rangeEnd", "rangeStartTime", "rangeEndTime",
    "updatedAt">>

\* the object a pointer designates
Pointed(o) == IF o.live THEN sessions[o.id] ELSE o.frozen

\* the locals of all processes once the object under id is replaced: the
\* pointers to the old object keep designating it
Detach(l, id) ==
  [p \in Procs |->
     IF l[p].obj.live /\ l[p].obj.id = id
     THEN [l[p] EXCEPT !.obj.live = FALSE, !.obj.frozen = sessions[id]]
     ELSE l[p]]

\* history: the locals of all processes once the object under id is assigned
\* to in place and has become state; obj.versions of a pointer holds the
\* values its object has had since the pointer was obtained
Touch(l, id, state) ==
  [p \in Procs |->
     IF l[p].obj.live /\ l[p].obj.id = id
     THEN [l[p] EXCEPT !.obj.versions = @ \cup {state}]
     ELSE l[p]]

\* the locals of a handler that loops to read the next request
Looped(c) ==
  [NoLocals EXCEPT !.err = loc[c].err, !.rootsSeen = loc[c].rootsSeen,
                   !.seen = loc[c].seen]

\* the handler reads req and goes on to position at
Begin(c, req, at) ==
  /\ requests' = [requests EXCEPT ![c] = Append(@, req)]
  /\ loc' = [loc EXCEPT ![c] = [NoLocals EXCEPT !.req = req]]
  /\ pc' = [pc EXCEPT ![c] = at]
  /\ UNCHANGED responses

\* case "state_get"
StateGet(c, req) ==
  /\ AtRead(c)
  /\ req.type = "state_get"
  /\ Begin(c, req, "get_rlock")
  /\ UNCHANGED <<envVars, now, storeVars, cacheVars, sessVars, reloads,
                 sessionID, handshake, applyVars, client>>

\* sessions.getState: the lookup under m.mu.RLock(); a nil pointer is
\* written as null at once
GetStateLookup(c) ==
  /\ pc[c] = "get_rlock"
  /\ sessMu = None
  /\ IF getState(sessions, sessionID[c]) = NilState
     THEN Finish(c, Resp("state", loc[c].req.id, NilState, ""))
     ELSE /\ loc' = [loc EXCEPT
                       ![c].obj = [id |-> sessionID[c], live |-> TRUE,
                                   frozen |-> NilState,
                                   versions |-> {getState(sessions, sessionID[c])}],
                       ![c].out = getState(sessions, sessionID[c]),
                       ![c].k = 0]
          /\ pc' = [pc EXCEPT ![c] = "encode"]
          /\ UNCHANGED responses
  /\ UNCHANGED <<envVars, now, storeVars, cacheVars, sessVars, reloads,
                 sessionID, handshake, requests, applyVars, client>>

\* conn.WriteJSON of a *computeState: the encoder reads the next field of
\* the object, and writes the response after the last one
EncodeField(c) ==
  LET f == SerialFields[loc[c].k + 1]
      out == [loc[c].out EXCEPT ![f] = Pointed(loc[c].obj)[f]]
  IN
  /\ pc[c] = "encode"
  /\ loc[c].k < Len(SerialFields)
  /\ IF loc[c].k + 1 < Len(SerialFields)
     THEN /\ loc' = [loc EXCEPT ![c].out = out, ![c].k = @ + 1]
          /\ UNCHANGED <<pc, responses>>
     ELSE Finish(c, Resp(IF loc[c].req.type = "state_get" THEN "state"
                         ELSE "state_reset", loc[c].req.id, out, ""))
  /\ UNCHANGED <<envVars, now, storeVars, cacheVars, sessVars, reloads,
                 sessionID, handshake, requests, applyVars, client>>

\* case "state_update" up to m.mu.Lock() in setState: the state is built
\* and stamped with the time before the lock is requested
StateUpdate(c, req) ==
  /\ AtRead(c)
  /\ req.type = "state_update"
  /\ IF ~req.state.present
     THEN /\ Answer(c, req, ErrorResp(req.id, "missing state"))
          /\ UNCHANGED <<pc, loc>>
     ELSE /\ requests' = [requests EXCEPT ![c] = Append(@, req)]
          /\ loc' = [loc EXCEPT ![c] = [NoLocals EXCEPT !.req = req,
                                                        !.stamp = now]]
          /\ pc' = [pc EXCEPT ![c] = "set_lock"]
          /\ UNCHANGED responses
  /\ UNCHANGED <<envVars, now, storeVars, cacheVars, sessVars, reloads,
                 sessionID, handshake, applyVars, client>>

\* setState under a bug: the table is assigned without m.mu
SetStateStoreNoLock(c) ==
  /\ pc[c] = "set_lock"
  /\ sessions' = setState(sessions, sessionID[c],
                          toComputeState(loc[c].req.state), loc[c].stamp)
  /\ serial' = setState(serial, sessionID[c],
                        toComputeState(loc[c].req.state), loc[c].stamp)
  /\ responses' = [responses EXCEPT ![c] =
                     Append(@, Resp("state_update", loc[c].req.id, StatusOk, ""))]
  /\ loc' = [Detach(loc, sessionID[c]) EXCEPT ![c] = Looped(c)]
  /\ pc' = [pc EXCEPT ![c] = "read"]
  /\ UNCHANGED <<envVars, now, storeVars, cacheVars, sessMu, reloads,
                 sessionID, handshake, requests, applyVars, client>>

\* setState under m.mu, and the reply
SetStateStore(c) ==
  /\ pc[c] = "set_lock"
  /\ sessionID[c] = "" \/ sessMu = None
  /\ sessions' = setState(sessions, sessionID[c],
                          toComputeState(loc[c].req.state), loc[c].stamp)
  /\ serial' = setState(serial, sessionID[c],
                        toComputeState(loc[c].req.state), loc[c].stamp)
  /\ responses' = [responses EXCEPT ![c] =
                     Append(@, Resp("state_update", loc[c].req.id, StatusOk, ""))]
  /\ loc' = [Detach(loc, sessionID[c]) EXCEPT ![c] = Looped(c)]
  /\ pc' = [pc EXCEPT ![c] = "read"]
  /\ UNCHANGED <<envVars, now, storeVars, cacheVars, sessMu, reloads,
                 sessionID, handshake, requests, applyVars, client>>

\* case "range_selection" up to m.mu.Lock() in updateRange
RangeSelection(c, req) ==
  LET r == parseStartEndStrings(req.start, req.end, now) IN
  /\ AtRead(c)
  /\ req.type = "range_selection"
  /\ IF r.err # NoErr
     THEN /\ Answer(c, req, ErrorResp(req.id, r.err))
          /\ UNCHANGED <<pc, loc>>
     ELSE /\ requests' = [requests EXCEPT ![c] = Append(@, req)]
          /\ loc' = [loc EXCEPT ![c] = [NoLocals EXCEPT !.req = req,
                                                        !.start = r.start,
                                                        !.end = r.end]]
          /\ pc' = [pc EXCEPT ![c] = "range_lock"]
          /\ UNCHANGED responses
  /\ UNCHANGED <<envVars, now, storeVars, cacheVars, sessVars, reloads,
                 sessionID, handshake, applyVars, client>>

\* the value updateRange assigns to field f
RangeValue(c, f, old, clock) ==
  IF f = "rangeStart" THEN loc[c].req.rangeStart
  ELSE IF f = "rangeEnd" THEN loc[c].req.rangeEnd
  ELSE IF f = "rangeStartTime" THEN ToString(loc[c].start)
  ELSE IF f = "rangeEndTime" THEN ToString(loc[c].end)
  ELSE IF f = "computeMode"
  THEN (IF loc[c].req.computeMode = "absent" THEN old
        ELSE loc[c].req.computeMode = "true")
  ELSE clock

\* updateRange under a bug: the update is applied to a new zero state
UpdateRangeLockFromZero(c) ==
  LET id == sessionID[c]
      state == IF Has(sessions, id) THEN sessions[id] ELSE ZeroState(0)
      f == RangeFields[1]
      new == [ZeroState(0) EXCEPT ![f] = RangeValue(c, f, ZeroState(0)[f], now)]
  IN
  /\ pc[c] = "range_lock"
  /\ sessMu = None
  /\ sessMu' = c
  /\ sessions' = MapPut(sessions, id, new)
  /\ loc' = [Touch(loc, id, new) EXCEPT ![c].k = 1, ![c].was = state]
  /\ pc' = [pc EXCEPT ![c] = "range_write"]
  /\ UNCHANGED <<envVars, now, storeVars, cacheVars, serial, reloads, connVars,
                 applyVars, client>>

\* updateRange: nothing for the empty id; else m.mu.Lock(), the object of
\* the id or a new zero object put under it, and the first assignment
UpdateRangeLock(c) ==
  LET id == sessionID[c]
      state == IF Has(sessions, id) THEN sessions[id] ELSE ZeroState(0)
      f == RangeFields[1]
      new == [state EXCEPT ![f] = RangeValue(c, f, state[f], now)]
  IN
  /\ pc[c] = "range_lock"
  /\ IF id = ""
     THEN /\ Finish(c, Resp("range_selection", loc[c].req.id, StatusOk, ""))
          /\ UNCHANGED sessVars
     ELSE /\ sessMu = None
          /\ sessMu' = c
          /\ sessions' = MapPut(sessions, id, new)
          /\ loc' = [Touch(loc, id, new) EXCEPT ![c].k = 1, ![c].was = state]
          /\ pc' = [pc EXCEPT ![c] = "range_write"]
          /\ UNCHANGED responses
  /\ UNCHANGED <<envVars, now, storeVars, cacheVars, serial, reloads, sessionID,
                 handshake, requests, applyVars, client>>

\* updateRange: the next assignment; after the last one, state.UpdatedAt,
\* m.mu.Unlock() and the reply
UpdateRangeWrite(c) ==
  LET id == sessionID[c]
      f == RangeFields[loc[c].k + 1]
      new == [sessions[id] EXCEPT ![f] = RangeValue(c, f, sessions[id][f], now)]
  IN
  /\ pc[c] = "range_write"
  /\ sessMu = c
  /\ sessions' = [sessions EXCEPT ![id] = new]
  /\ IF loc[c].k + 1 < Len(RangeFields)
     THEN /\ loc' = [Touch(loc, id, new) EXCEPT ![c].k = @ + 1]
          /\ UNCHANGED <<sessMu, serial, pc, responses>>
     ELSE /\ sessMu' = None
          /\ serial' = updateRange(serial, id, loc[c].start, loc[c].end,
                                   loc[c].req.rangeStart, loc[c].req.rangeEnd,
                                   loc[c].req.computeMode, now)
          /\ responses' = [responses EXCEPT ![c] =
                Append(@, Resp("range_selection", loc[c].req.id, StatusOk, ""))]
          /\ loc' = [Touch(loc, id, new) EXCEPT ![c] = Looped(c)]
          /\ pc' = [pc EXCEPT ![c] = "read"]
  /\ UNCHANGED <<envVars, now, storeVars, cacheVars, reloads, sessionID,
                 handshake, requests, applyVars, client>>

\* case "state_reset"
StateReset(c, req) ==
  /\ AtRead(c)
  /\ req.type = "state_reset"
  /\ Begin(c, req, "reset_lock")
  /\ UNCHANGED <<envVars, now, storeVars, cacheVars, sessVars, reloads,
                 sessionID, handshake, applyVars, client>>

\* resetState: nil for the empty id; else, under m.mu, a new zero object is
\* put under the id and its pointer returned
ResetStateStore(c) ==
  /\ pc[c] = "reset_lock"
  /\ IF sessionID[c] = ""
     THEN /\ Finish(c, Resp("state_reset", loc[c].req.id, NilState, ""))
          /\ UNCHANGED <<sessions, serial>>
     ELSE /\ sessMu = None
          /\ sessions' = resetState(sessions, sessionID[c], now)
          /\ serial' = resetState(serial, sessionID[c], now)
          /\ loc' = [Detach(loc, sessionID[c]) EXCEPT
                       ![c].obj = [id |-> sessionID[c], live |-> TRUE,
                                   frozen |-> NilState,
                                   versions |-> {ZeroState(now)}],
                       ![c].out = ZeroState(now),
                       ![c].k = 0]
          /\ pc' = [pc EXCEPT ![c] = "encode"]
          /\ UNCHANGED responses
  /\ UNCHANGED <<envVars, now, storeVars, cacheVars, sessMu, reloads,
                 sessionID, handshake, requests, applyVars, client>>

\* the steps of the session requests of connection c after the read
SessionSteps(c) ==
  \/ GetStateLookup(c)
  \/ EncodeField(c)
  \/ SetStateStore(c)
  \/ UpdateRangeLock(c)
  \/ UpdateRangeWrite(c)
  \/ ResetStateStore(c)

RequestTypes ==
  {"state_get", "state_update", "range_selection", "state_reset", "timeframe",
   "price_overview", "price_overview_batch", "compute_mode",
   "increase_resolution"}

\* the default case under a bug: the handler returns after the error reply
UnknownTypeCloses(c, req) ==
  /\ AtRead(c)
  /\ req.type \notin RequestTypes
  /\ Answer(c, req, ErrorResp(req.id, "unknown message type"))
  /\ pc' = [pc EXCEPT ![c] = "closed"]
  /\ UNCHANGED <<envVars, now, storeVars, cacheVars, sessVars, loc,
                 reloads, sessionID, handshake, applyVars, client>>

\* the default case of the switch
UnknownType(c, req) ==
  /\ AtRead(c)
  /\ req.type \notin RequestTypes
  /\ Answer(c, req, ErrorResp(req.id, "unknown message type"))
  /\ UNCHANGED <<envVars, now, storeVars, cacheVars, sessVars, pc, loc,
                 reloads, sessionID, handshake, applyVars, client>>

\* the symbols of a request that are not blank, in order
NonBlank(symbols) == LET Test(x) == x # "" IN SelectSeq(symbols, Test)

\* price_overview: the validation, then store.buildPriceOverview, whose read
\* of s.priceBySymbol[symbol] is made under the read lock
PriceOverview(c, req) ==
  LET r == parseStartEndStrings(req.start, req.end, now)
      rv == parseResolutionValue(req.resolution)
      o == buildPriceOverview(PointsOf(store.priceBySymbol, req.symbol),
                              r.start, r.end, rv.v)
  IN
  /\ AtRead(c)
  /\ req.type = "price_overview"
  /\ IF req.symbol = "" THEN Answer(c, req, ErrorResp(req.id, "missing symbol"))
     ELSE IF r.err # NoErr THEN Answer(c, req, ErrorResp(req.id, r.err))
     ELSE IF rv.err # NoErr THEN Answer(c, req, ErrorResp(req.id, rv.err))
     ELSE /\ CanRLock(storeMu)
          /\ IF ~o.ok
             THEN Answer(c, req, Resp("price_overview", req.id, NilData, ""))
             ELSE Answer(c, req, Resp("price_overview", req.id, o.data, ""))
  /\ UNCHANGED <<envVars, now, storeVars, cacheVars, sessVars, pc, loc,
                 reloads, sessionID, handshake, applyVars, client>>

\* the reply of price_overview_batch and of increase_resolution
ItemsResp(req, resolution, items) ==
  IF req.type = "price_overview_batch"
  THEN Resp("price_overview_batch", req.id, items, "")
  ELSE Resp("increase_resolution", req.id,
            [resolutionSeconds |-> resolution, items |-> items], "")

\* price_overview_batch up to the loop over msg.Symbols
BatchStart(c, req) ==
  LET r == parseStartEndStrings(req.start, req.end, now)
      rv == parseResolutionValue(req.resolution)
  IN
  /\ AtRead(c)
  /\ req.type = "price_overview_batch"
  /\ IF r.err # NoErr
     THEN Answer(c, req, ErrorResp(req.id, r.err)) /\ UNCHANGED <<pc, loc>>
     ELSE IF rv.err # NoErr
     THEN Answer(c, req, ErrorResp(req.id, rv.err)) /\ UNCHANGED <<pc, loc>>
     ELSE IF NonBlank(req.symbols) = << >>
     THEN Answer(c, req, ItemsResp(req, rv.v, << >>)) /\ UNCHANGED <<pc, loc>>
     ELSE /\ requests' = [requests EXCEPT ![c] = Append(@, req)]
          /\ loc' = [loc EXCEPT ![c] =
                       [NoLocals EXCEPT !.req = req, !.start = r.start,
                                        !.end = r.end, !.resolution = rv.v,
                                        !.symbols = NonBlank(req.symbols)]]
          /\ pc' = [pc EXCEPT ![c] = "items"]
          /\ UNCHANGED responses
  /\ UNCHANGED <<envVars, now, storeVars, cacheVars, sessVars, reloads,
                 sessionID, handshake, applyVars, client>>

\* one iteration of the loop under a bug: a symbol that is not found fails
\* the whole batch
ItemStepAbortsOnUnknown(c) ==
  LET symbol == Head(loc[c].symbols)
      o == buildPriceOverview(PointsOf(store.priceBySymbol, symbol),
                              loc[c].start, loc[c].end, loc[c].resolution)
      item == [symbol |-> symbol, data |-> IF o.ok THEN o.data ELSE NilData,
               src |-> storeSrc.priceBySymbol]
      items == Append(loc[c].items, item)
  IN
  /\ pc[c] = "items"
  /\ CanRLock(storeMu)
  /\ IF ~o.ok
     THEN Finish(c, ErrorResp(loc[c].req.id, "could not build price overview"))
     ELSE IF Tail(loc[c].symbols) = << >>
     THEN Finish(c, ItemsResp(loc[c].req, loc[c].resolution, items))
     ELSE /\ loc' = [loc EXCEPT ![c].symbols = Tail(@), ![c].items = items]
          /\ UNCHANGED <<pc, responses>>
  /\ UNCHANGED <<envVars, now, storeVars, cacheVars, sessVars, reloads,
                 sessionID, handshake, requests, applyVars, client>>

\* one iteration of the loop over the symbols: store.buildPriceOverview takes
\* and releases the read lock for this symbol alone.  src is history: the
\* rebuilt index the points were read from.
ItemStep(c) ==
  LET symbol == Head(loc[c].symbols)
      o == buildPriceOverview(PointsOf(store.priceBySymbol, symbol),
                              loc[c].start, loc[c].end, loc[c].resolution)
      item == [symbol |-> symbol, data |-> IF o.ok THEN o.data ELSE NilData,
               src |-> storeSrc.priceBySymbol]
      items == Append(loc[c].items, item)
  IN
  /\ pc[c] = "items"
  /\ CanRLock(storeMu)
  /\ IF Tail(loc[c].symbols) = << >>
     THEN Finish(c, ItemsResp(loc[c].req, loc[c].resolution, items))
     ELSE /\ loc' = [loc EXCEPT ![c].symbols = Tail(@), ![c].items = items]
          /\ UNCHANGED <<pc, responses>>
  /\ UNCHANGED <<envVars, now, storeVars, cacheVars, sessVars, reloads,
                 sessionID, handshake, requests, applyVars, client>>

\* compute_mode up to store.loadFromDirsRange
ComputeMode(c, req) ==
  LET r == parseStartEndStrings(req.start, req.end, now) IN
  /\ AtRead(c)
  /\ req.type = "compute_mode"
  /\ IF r.err # NoErr
     THEN Answer(c, req, ErrorResp(req.id, r.err)) /\ UNCHANGED <<pc, loc>>
     ELSE /\ requests' = [requests EXCEPT ![c] = Append(@, req)]
          /\ loc' = [loc EXCEPT ![c] =
                       [NoLocals EXCEPT !.req = req, !.start = r.start,
                                        !.end = r.end,
                                        !.range = Range(r.start, r.end)]]
          /\ pc' = [pc EXCEPT ![c] = "scan"]
          /\ UNCHANGED responses
  /\ UNCHANGED <<envVars, now, storeVars, cacheVars, sessVars, reloads,
                 sessionID, handshake, applyVars, client>>

\* increase_resolution up to store.loadFromDirsRange
IncreaseResolution(c, req) ==
  LET r == parseStartEndStrings(req.start, req.end, now)
      ticks == IF req.ticks <= 0 THEN DefaultTicks ELSE req.ticks
  IN
  /\ AtRead(c)
  /\ req.type = "increase_resolution"
  /\ IF r.err # NoErr
     THEN Answer(c, req, ErrorResp(req.id, r.err)) /\ UNCHANGED <<pc, loc>>
     ELSE /\ requests' = [requests EXCEPT ![c] = Append(@, req)]
          /\ loc' = [loc EXCEPT ![c] =
                       [NoLocals EXCEPT
                          !.req = req, !.start = r.start, !.end = r.end,
                          !.range = Range(r.start, r.end),
                          !.resolution =
                             computeResolutionSecondsForTicks(r.start, r.end, ticks)]]
          /\ pc' = [pc EXCEPT ![c] = "scan"]
          /\ UNCHANGED responses
  /\ UNCHANGED <<envVars, now, storeVars, cacheVars, sessVars, reloads,
                 sessionID, handshake, applyVars, client>>

ConnScanOk(c) ==
  /\ LoadScanOk(c)
  /\ UNCHANGED <<envVars, now, storeVars, cacheVars, sessVars, reloads,
                 connVars, applyVars, client>>

\* loadFromDirsRange returned an error
ConnScanFail(c) ==
  /\ pc[c] = "scan"
  /\ Scan(disk, rootState, loc[c].range).err # NoErr
  /\ responses' = [responses EXCEPT ![c] =
                     Append(@, ErrorResp(loc[c].req.id, "could not load range"))]
  /\ loc' = [loc EXCEPT ![c] =
               [NoLocals EXCEPT !.err = Scan(disk, rootState, loc[c].range).err,
                                !.rootsSeen = rootState]]
  /\ pc' = [pc EXCEPT ![c] = "read"]
  /\ UNCHANGED <<envVars, now, storeVars, cacheVars, sessVars, reloads,
                 sessionID, handshake, requests, applyVars, client>>

\* after the swap, under a bug: the cache is not reset
ConnLoadedNoReset(c) ==
  LET req == loc[c].req IN
  /\ pc[c] = "loaded"
  /\ UNCHANGED cache
  /\ IF req.type = "compute_mode"
     THEN /\ pc' = [pc EXCEPT ![c] = "cm_reply"]
          /\ UNCHANGED <<loc, responses>>
     ELSE IF Len(req.symbols) = 0
     THEN /\ pc' = [pc EXCEPT ![c] = "list"]
          /\ UNCHANGED <<loc, responses>>
     ELSE IF NonBlank(req.symbols) = << >>
     THEN Finish(c, ItemsResp(req, loc[c].resolution, << >>))
     ELSE /\ loc' = [loc EXCEPT ![c].symbols = NonBlank(req.symbols)]
          /\ pc' = [pc EXCEPT ![c] = "items"]
          /\ UNCHANGED responses
  /\ UNCHANGED <<envVars, now, storeVars, cacheMu, sessVars, reloads,
                 sessionID, handshake, requests, applyVars, client>>

\* after the swap: cache.reset(), then the reply of compute_mode or the
\* symbols of increase_resolution
ConnLoaded(c) ==
  LET req == loc[c].req IN
  /\ pc[c] = "loaded"
  /\ cacheMu = None
  /\ cache' = cacheReset
  /\ IF req.type = "compute_mode"
     THEN /\ pc' = [pc EXCEPT ![c] = "cm_reply"]
          /\ UNCHANGED <<loc, responses>>
     ELSE IF Len(req.symbols) = 0
     THEN /\ pc' = [pc EXCEPT ![c] = "list"]
          /\ UNCHANGED <<loc, responses>>
     ELSE IF NonBlank(req.symbols) = << >>
     THEN Finish(c, ItemsResp(req, loc[c].resolution, << >>))
     ELSE /\ loc' = [loc EXCEPT ![c].symbols = NonBlank(req.symbols)]
          /\ pc' = [pc EXCEPT ![c] = "items"]
          /\ UNCHANGED responses
  /\ UNCHANGED <<envVars, now, storeVars, cacheMu, sessVars, reloads,
                 sessionID, handshake, requests, applyVars, client>>

\* compute_mode: the reply, after cache.reset() has returned
ComputeModeReply(c) ==
  /\ pc[c] = "cm_reply"
  /\ Finish(c, Resp("compute_mode", loc[c].req.id, StatusOk, ""))
  /\ UNCHANGED <<envVars, now, storeVars, cacheVars, sessVars, reloads,
                 sessionID, handshake, requests, applyVars, client>>

\* increase_resolution without symbols: store.listSymbols()
ListSymbols(c) ==
  LET symbols == listSymbols(store.qualityBySymbol) IN
  /\ pc[c] = "list"
  /\ CanRLock(storeMu)
  /\ IF symbols = << >>
     THEN Finish(c, ItemsResp(loc[c].req, loc[c].resolution, << >>))
     ELSE /\ loc' = [loc EXCEPT ![c].symbols = symbols]
          /\ pc' = [pc EXCEPT ![c] = "items"]
          /\ UNCHANGED responses
  /\ UNCHANGED <<envVars, now, storeVars, cacheVars, sessVars, reloads,
                 sessionID, handshake, requests, applyVars, client>>

(***************************************************************************)
(* timeframe: cache.getOrBuild around store.buildTimeframeResponse.        *)
(***************************************************************************)
\* the check under a bug: a payload of the age of the TTL is still served
FreshAtTTL(clock) == cache.updatedAt # 0 /\ clock - cache.updatedAt <= cacheTTL

\* the cached payload is younger than the TTL
Fresh(clock) == cache.updatedAt # 0 /\ clock - cache.updatedAt < cacheTTL

\* getOrBuild, the check under the cache's read lock
Timeframe(c, req) ==
  /\ AtRead(c)
  /\ req.type = "timeframe"
  /\ cacheMu = None
  /\ IF Fresh(now)
     THEN Answer(c, req, Resp("timeframe", req.id, cache.payload, ""))
          /\ UNCHANGED <<pc, loc>>
     ELSE /\ requests' = [requests EXCEPT ![c] = Append(@, req)]
          /\ loc' = [loc EXCEPT ![c] = [NoLocals EXCEPT
                                          !.req = req,
                                          !.floor = loc["main"].done]]
          /\ pc' = [pc EXCEPT ![c] = "tf_lock"]
          /\ UNCHANGED responses
  /\ UNCHANGED <<envVars, now, storeVars, cacheVars, sessVars, reloads,
                 sessionID, handshake, applyVars, client>>

\* c.mu.Lock() under a bug: the check is not repeated under the lock
TimeframeLockNoRecheck(c) ==
  /\ pc[c] = "tf_lock"
  /\ cacheMu = None
  /\ cacheMu' = c
  /\ pc' = [pc EXCEPT ![c] = "tf_rlock"]
  /\ UNCHANGED <<loc, responses>>
  /\ UNCHANGED <<envVars, now, storeVars, cache, sessVars, reloads, sessionID, handshake,
                 requests, applyVars, client>>

\* getOrBuild, c.mu.Lock() and the second check
TimeframeLock(c) ==
  /\ pc[c] = "tf_lock"
  /\ cacheMu = None
  /\ IF Fresh(now)
     THEN Finish(c, Resp("timeframe", loc[c].req.id, cache.payload, ""))
          /\ UNCHANGED cacheMu
     ELSE /\ cacheMu' = c
          /\ pc' = [pc EXCEPT ![c] = "tf_rlock"]
          /\ UNCHANGED <<loc, responses>>
  /\ UNCHANGED <<envVars, now, storeVars, cache, sessVars, reloads, sessionID, handshake,
                 requests, applyVars, client>>

\* buildTimeframeResponse: s.mu.RLock()
TimeframeRLock(c) ==
  /\ pc[c] = "tf_rlock"
  /\ CanRLock(storeMu)
  /\ storeMu' = [storeMu EXCEPT !.readers = @ \cup {c}]
  /\ pc' = [pc EXCEPT ![c] = "tf_startTS"]
  /\ UNCHANGED <<envVars, now, store, storeSrc, cacheVars, sessVars, loc,
                 reloads, connVars, applyVars, client>>

\* buildTimeframeResponse reads s.startTS
TimeframeReadStart(c) ==
  /\ pc[c] = "tf_startTS"
  /\ loc' = [loc EXCEPT ![c].view.startTS = store.startTS,
                        ![c].viewSrc = [startTS |-> storeSrc.startTS]]
  /\ pc' = [pc EXCEPT ![c] = IF store.startTS <= 0 THEN "tf_runlock" ELSE "tf_endTS"]
  /\ UNCHANGED <<envVars, now, storeVars, cacheVars, sessVars, reloads,
                 connVars, applyVars, client>>

\* buildTimeframeResponse reads s.endTS
TimeframeReadEnd(c) ==
  /\ pc[c] = "tf_endTS"
  /\ loc' = [loc EXCEPT ![c].view.endTS = store.endTS,
                        ![c].viewSrc = [startTS |-> loc[c].viewSrc.startTS,
                                        endTS |-> storeSrc.endTS]]
  /\ pc' = [pc EXCEPT ![c] = IF store.endTS <= 0 THEN "tf_runlock" ELSE "tf_quality"]
  /\ UNCHANGED <<envVars, now, storeVars, cacheVars, sessVars, reloads,
                 connVars, applyVars, client>>

\* buildTimeframeResponse reads s.qualityBySymbol
TimeframeReadQuality(c) ==
  /\ pc[c] = "tf_quality"
  /\ loc' = [loc EXCEPT ![c].view.qualityBySymbol = store.qualityBySymbol,
                        ![c].viewSrc = [startTS |-> loc[c].viewSrc.startTS,
                                        endTS |-> loc[c].viewSrc.endTS,
                                        qualityBySymbol |-> storeSrc.qualityBySymbol]]
  /\ pc' = [pc EXCEPT ![c] = "tf_runlock"]
  /\ UNCHANGED <<envVars, now, storeVars, cacheVars, sessVars, reloads,
                 connVars, applyVars, client>>

\* buildTimeframeResponse returns its payload (s.mu.RUnlock())
TimeframeRUnlock(c) ==
  /\ pc[c] = "tf_runlock"
  /\ storeMu' = [storeMu EXCEPT !.readers = @ \ {c}]
  /\ loc' = [loc EXCEPT ![c].built = buildTimeframeResponse(loc[c].view, now)]
  /\ pc' = [pc EXCEPT ![c] = "tf_done"]
  /\ UNCHANGED <<envVars, now, store, storeSrc, cacheVars, sessVars, reloads,
                 connVars, applyVars, client>>

\* getOrBuild stores the payload and returns (c.mu.Unlock()), the handler
\* answers
TimeframeDone(c) ==
  LET payload == loc[c].built IN
  /\ pc[c] = "tf_done"
  /\ cache' = [updatedAt |-> now, payload |-> payload,
               src |-> loc[c].viewSrc.startTS]
  /\ cacheMu' = None
  /\ responses' = [responses EXCEPT ![c] =
                     Append(@, Resp("timeframe", loc[c].req.id, payload, ""))]
  /\ loc' = [p \in Procs |->
               IF p = c
               THEN [NoLocals EXCEPT !.err = loc[c].err,
                                     !.rootsSeen = loc[c].rootsSeen]
               ELSE IF pc[p] = "tf_lock"
               THEN [loc[p] EXCEPT !.seen = [at |-> now, payload |-> payload]]
               ELSE loc[p]]
  /\ pc' = [pc EXCEPT ![c] = "read"]
  /\ UNCHANGED <<envVars, now, storeVars, sessVars, reloads, sessionID, handshake,
                 requests, applyVars, client>>

\* time passes
Tick ==
  /\ now < NowInit + MaxTicks * ClockStep
  /\ now' = now + ClockStep
  /\ UNCHANGED <<envVars, storeVars, cacheVars, sessVars, pc, loc, reloads,
                 connVars, applyVars, client>>

(***************************************************************************)
(* applyPoint on a sequence of ticks, one tick a step.                     *)
(***************************************************************************)
ApplyTick ==
  /\ applyPos < Len(ticksIn)
  /\ applyPos' = applyPos + 1
  /\ applyIdx' = applyPoint(ticksIn[applyPos + 1].symbol, ticksIn[applyPos + 1].ts,
                            ticksIn[applyPos + 1].price, applyIdx)
  /\ UNCHANGED <<envVars, now, storeVars, cacheVars, sessVars, pc, loc,
                 reloads, connVars, ticksIn, client>>

(***************************************************************************)
(* The requests the clients send.                                          *)
(***************************************************************************)
RequestIDs == {"q1", "q2"}

Req(type, id) == [NoRequest EXCEPT !.type = type, !.id = id]

\* a computeStatePayload
SomeState ==
  [present |-> TRUE, computeMode |-> TRUE, rangeStart |-> 1, rangeEnd |-> 3,
   markers |-> [A |-> 2], ticksRequested |-> 100, lastSymbol |-> "A",
   rangeStartTime |-> "60000", rangeEndTime |-> "180000", resolution |-> "1m",
   customResolutionSeconds |-> 30]

SessionRequests ==
  UNION {{Req("state_get", id),
          Req("state_reset", id),
          Req("state_update", id),
          [Req("state_update", id) EXCEPT !.state = SomeState],
          [Req("range_selection", id) EXCEPT
             !.start = TimeNum(60), !.end = TimeNum(120), !.rangeStart = 1,
             !.rangeEnd = 2, !.computeMode = "true"],
          [Req("range_selection", id) EXCEPT !.start = TimeBad]}
         : id \in RequestIDs}

TimeframeRequests == {Req("timeframe", id) : id \in RequestIDs}

OverviewRequests ==
  UNION {{[Req("price_overview", id) EXCEPT
             !.symbol = "A", !.start = TimeNum(60), !.end = TimeNum(239),
             !.resolution = 60],
          [Req("price_overview", id) EXCEPT
             !.symbol = "Z", !.start = TimeNum(60), !.end = TimeNum(239)],
          [Req("price_overview", id) EXCEPT !.symbol = "B"],
          Req("price_overview", id),
          [Req("price_overview", id) EXCEPT !.symbol = "A", !.start = TimeBad],
          [Req("price_overview", id) EXCEPT
             !.symbol = "A", !.start = TimeNum(120), !.end = TimeNum(60)],
          [Req("price_overview", id) EXCEPT !.symbol = "A", !.resolution = -5]}
         : id \in RequestIDs}

BatchRequests ==
  UNION {{[Req("price_overview_batch", id) EXCEPT
             !.symbols = <<"A", "B">>, !.start = TimeNum(60),
             !.end = TimeNum(299), !.resolution = 60],
          [Req("price_overview_batch", id) EXCEPT
             !.symbols = <<"Z", "", "A">>, !.start = TimeNum(60),
             !.end = TimeNum(299), !.resolution = 30],
          Req("price_overview_batch", id),
          [Req("price_overview_batch", id) EXCEPT
             !.symbols = <<"A">>, !.end = TimeBad]}
         : id \in RequestIDs}

LoadRequests ==
  UNION {{[Req("compute_mode", id) EXCEPT
             !.start = TimeNum(60), !.end = TimeNum(120)],
          [Req("compute_mode", id) EXCEPT
             !.start = TimeNum(120001), !.end = TimeNum(180)],
          Req("compute_mode", id),
          [Req("compute_mode", id) EXCEPT
             !.start = TimeNum(180), !.end = TimeNum(60)]}
         : id \in RequestIDs}

ResolutionRequests ==
  UNION {{[Req("increase_resolution", id) EXCEPT
             !.start = TimeNum(60), !.end = TimeNum(180), !.ticks = 3,
             !.symbols = <<"A", "B">>],
          [Req("increase_resolution", id) EXCEPT
             !.start = TimeNum(60), !.end = TimeNum(180)],
          [Req("increase_resolution", id) EXCEPT
             !.start = TimeNum(60), !.end = TimeNum(180), !.symbols = <<"">>],
          [Req("increase_resolution", id) EXCEPT !.start = TimeBad, !.ticks = 3]}
         : id \in RequestIDs}

UnknownRequests == {Req("bogus", id) : id \in RequestIDs} \cup {Req("", "q1")}

AllRequests ==
  SessionRequests \cup TimeframeRequests \cup OverviewRequests
    \cup BatchRequests \cup LoadRequests \cup ResolutionRequests
    \cup UnknownRequests

(***************************************************************************)
(* Specifications.                                                         *)
(***************************************************************************)
InitWith(disk0, ticks0) ==
  /\ disk = disk0
  /\ rootState = [r \in {"r1", "r2"} |-> "ok"]
  /\ envSteps = 0
  /\ now = NowInit
  /\ store = newDataStore
  /\ storeSrc = [f \in StoreFields |-> EmptyIndex]
  /\ storeMu = [writer |-> None, readers |-> {}, pending |-> None]
  /\ cache = cacheReset
  /\ cacheMu = None
  /\ sessions = EmptyMap
  /\ sessMu = None
  /\ serial = EmptyMap
  /\ pc = [p \in Procs |-> IF p = "main" THEN "scan" ELSE "connecting"]
  /\ loc = [p \in Procs |-> NoLocals]
  /\ reloads = 0
  /\ sessionID = [c \in Conns |-> ""]
  /\ handshake = [c \in Conns |-> [cookie |-> "", setCookie |-> ""]]
  /\ requests = [c \in Conns |-> << >>]
  /\ responses = [c \in Conns |-> << >>]
  /\ ticksIn = ticks0
  /\ applyPos = 0
  /\ applyIdx = EmptyIndex
  /\ client = NoClient

\* the steps of a rebuild by process p between its scan and its return
LoadSteps(p) ==
  \/ LoadLockCall(p)
  \/ LoadLock(p)
  \/ LoadWriteStart(p)
  \/ LoadWriteEnd(p)
  \/ LoadWriteQuality(p)
  \/ LoadWritePrices(p)

MainSteps ==
  \/ MainScanOk
  \/ MainScanFail
  \/ MainLoaded
  \/ ReloadTick

EnvSteps ==
  \/ \E f \in UploadIds : Upload(f)
  \/ \E r \in {"r1", "r2"}, st \in RootStates : SetRoot(r, st)

(***************************************************************************)
(* Spec: the request loop of one connection, every request type and every  *)
(* error path, after the preload.                                          *)
(***************************************************************************)
Init == \E d \in {{1, 2, 4}, {1, 2, 5}} : InitWith(d, << >>)

Next ==
  \/ MainScanOk
  \/ MainScanFail
  \/ MainLoaded
  \/ \E p \in {"main", "c1"} : LoadSteps(p)
  \/ \E cookie \in {"", "s1"} : ConnOpen("c1", cookie)
  \/ ConnClose("c1")
  \/ \E req \in AllRequests :
       \/ StateGet("c1", req)
       \/ StateUpdate("c1", req)
       \/ RangeSelection("c1", req)
       \/ StateReset("c1", req)
       \/ Timeframe("c1", req)
       \/ PriceOverview("c1", req)
       \/ BatchStart("c1", req)
       \/ ComputeMode("c1", req)
       \/ IncreaseResolution("c1", req)
       \/ UnknownType("c1", req)
  \/ SessionSteps("c1")
  \/ ItemStep("c1")
  \/ ConnScanOk("c1")
  \/ ConnScanFail("c1")
  \/ ConnLoaded("c1")
  \/ ComputeModeReply("c1")
  \/ ListSymbols("c1")
  \/ TimeframeLock("c1")
  \/ TimeframeRLock("c1")
  \/ TimeframeReadStart("c1")
  \/ TimeframeReadEnd("c1")
  \/ TimeframeReadQuality("c1")
  \/ TimeframeRUnlock("c1")
  \/ TimeframeDone("c1")

Spec == Init /\ [][Next]_vars

(***************************************************************************)
(* SpecStore: rebuilds of the store (the preload, the periodic reloads,    *)
(* the range loads of compute_mode) while files are uploaded and roots     *)
(* come and go.                                                            *)
(***************************************************************************)
StoreRequests ==
  {[Req("compute_mode", "q1") EXCEPT !.start = TimeNum(60), !.end = TimeNum(120)],
   [Req("compute_mode", "q1") EXCEPT !.start = TimeNum(120001), !.end = TimeNum(300)]}

InitStore == InitWith({1, 3}, << >>)

NextStore ==
  \/ EnvSteps
  \/ MainSteps
  \/ \E p \in {"main", "c1"} : LoadSteps(p)
  \/ ConnOpen("c1", "")
  \/ ConnClose("c1")
  \/ \E req \in StoreRequests : ComputeMode("c1", req)
  \/ ConnScanOk("c1")
  \/ ConnScanFail("c1")
  \/ ConnLoaded("c1")
  \/ ComputeModeReply("c1")

SpecStore == InitStore /\ [][NextStore]_vars

(***************************************************************************)
(* SpecRace: queries of one connection racing with the periodic reloader   *)
(* and with the range load of another connection.                          *)
(***************************************************************************)
RaceRequests ==
  {Req("timeframe", "q1"),
   [Req("price_overview", "q1") EXCEPT
      !.symbol = "A", !.start = TimeNum(60), !.end = TimeNum(239),
      !.resolution = 60],
   [Req("price_overview_batch", "q1") EXCEPT
      !.symbols = <<"A", "B">>, !.start = TimeNum(60), !.end = TimeNum(299),
      !.resolution = 60],
   [Req("increase_resolution", "q1") EXCEPT
      !.start = TimeNum(60), !.end = TimeNum(180), !.ticks = 3,
      !.symbols = <<"A", "B">>],
   [Req("increase_resolution", "q1") EXCEPT
      !.start = TimeNum(60), !.end = TimeNum(180)]}

InitRace == InitWith({1, 2}, << >>)

NextRace ==
  \/ \E f \in {4} : Upload(f)
  \/ MainScanOk
  \/ MainLoaded
  \/ ReloadTick
  \/ \E p \in {"main", "c1"} : LoadSteps(p)
  \/ ConnOpen("c1", "")
  \/ ConnClose("c1")
  \/ \E req \in RaceRequests :
       \/ Timeframe("c1", req)
       \/ PriceOverview("c1", req)
       \/ BatchStart("c1", req)
       \/ IncreaseResolution("c1", req)
  \/ ConnScanOk("c1")
  \/ ConnLoaded("c1")
  \/ ItemStep("c1")
  \/ ListSymbols("c1")
  \/ TimeframeLock("c1")
  \/ TimeframeRLock("c1")
  \/ TimeframeReadStart("c1")
  \/ TimeframeReadEnd("c1")
  \/ TimeframeReadQuality("c1")
  \/ TimeframeRUnlock("c1")
  \/ TimeframeDone("c1")

SpecRace == InitRace /\ [][NextRace]_vars

(***************************************************************************)
(* SpecApply: applyPoint on every sequence of up to MaxTicksIn ticks.      *)
(***************************************************************************)
MaxTicksIn == 3
TickUniverse ==
  [symbol : {"A"}, ts : {60000, 90000, 125000}, price : {10, 11}]
    \cup [symbol : {"B"}, ts : {90000}, price : {10}]
TickSeqs == UNION {[1..n -> TickUniverse] : n \in 0..MaxTicksIn}

InitApply == \E ticks \in TickSeqs : InitWith({}, ticks)

NextApply == ApplyTick

SpecApply == InitApply /\ [][NextApply]_vars

(***************************************************************************)
(* SpecQuery: the read-only queries (timeframe, price_overview,            *)
(* price_overview_batch) of one connection on the store the preload built  *)
(* from one of several directory trees.                                    *)
(***************************************************************************)
QueryDisks == {{}, {1, 2, 4}, {1, 2, 6}, {1, 7}}

QueryRequests ==
  {Req("timeframe", "q1"),
   \* whole minutes, one bucket a minute
   [Req("price_overview", "q1") EXCEPT
      !.symbol = "A", !.start = TimeNum(60), !.end = TimeNum(180),
      !.resolution = 60],
   \* a start that is no whole minute
   [Req("price_overview", "q1") EXCEPT
      !.symbol = "A", !.start = TimeNum(30), !.end = TimeNum(150),
      !.resolution = 60],
   \* buckets shorter than a minute
   [Req("price_overview", "q1") EXCEPT
      !.symbol = "A", !.start = TimeNum(70), !.end = TimeNum(200),
      !.resolution = 30],
   \* a range in which the symbol has no point
   [Req("price_overview", "q1") EXCEPT
      !.symbol = "A", !.start = TimeNum(300), !.end = TimeNum(400),
      !.resolution = 60],
   \* a symbol the store does not hold
   [Req("price_overview", "q1") EXCEPT
      !.symbol = "Z", !.start = TimeNum(60), !.end = TimeNum(180),
      !.resolution = 60],
   [Req("price_overview", "q1") EXCEPT
      !.symbol = "B", !.start = TimeNum(60), !.end = TimeNum(180),
      !.resolution = 60],
   \* instants given in milliseconds, between whole seconds
   [Req("price_overview", "q1") EXCEPT
      !.symbol = "A", !.start = TimeNum(100500), !.end = TimeNum(160200),
      !.resolution = 60],
   [Req("price_overview_batch", "q1") EXCEPT
      !.symbols = <<"Z", "", "A", "B">>, !.start = TimeNum(60),
      !.end = TimeNum(180), !.resolution = 60]}

InitQuery == \E d \in QueryDisks : InitWith(d, << >>)

NextQuery ==
  \/ MainScanOk
  \/ LoadSteps("main")
  \/ MainLoaded
  \/ ConnOpen("c1", "")
  \/ ConnClose("c1")
  \/ \E req \in QueryRequests :
       \/ Timeframe("c1", req)
       \/ PriceOverview("c1", req)
       \/ BatchStart("c1", req)
  \/ ItemStep("c1")
  \/ TimeframeLock("c1")
  \/ TimeframeRLock("c1")
  \/ TimeframeReadStart("c1")
  \/ TimeframeReadEnd("c1")
  \/ TimeframeReadQuality("c1")
  \/ TimeframeRUnlock("c1")
  \/ TimeframeDone("c1")

SpecQuery == InitQuery /\ [][NextQuery]_vars

(***************************************************************************)
(* SpecCache: two connections ask for the timeframe while time passes and  *)
(* the reloader swaps the store and resets the cache.                      *)
(***************************************************************************)
CacheRequests == {Req("timeframe", "q1")}

InitCache == InitWith({1, 2}, << >>)

NextCache ==
  \/ MainScanOk
  \/ LoadSteps("main")
  \/ MainLoaded
  \/ ReloadTick
  \/ Tick
  \/ \E c \in Conns :
       \/ ConnOpen(c, "")
       \/ ConnClose(c)
       \/ \E req \in CacheRequests : Timeframe(c, req)
       \/ TimeframeLock(c)
       \/ TimeframeRLock(c)
       \/ TimeframeReadStart(c)
       \/ TimeframeReadEnd(c)
       \/ TimeframeReadQuality(c)
       \/ TimeframeRUnlock(c)
       \/ TimeframeDone(c)

SpecCache == InitCache /\ [][NextCache]_vars

(***************************************************************************)
(* SpecWindow: two connections load different windows (compute_mode,       *)
(* increase_resolution) while the reloader performs full reloads.          *)
(***************************************************************************)
WindowRequests(c) ==
  IF c = "c1"
  THEN {[Req("increase_resolution", "q1") EXCEPT
           !.start = TimeNum(60), !.end = TimeNum(180), !.ticks = 3,
           !.symbols = <<"A", "B">>]}
  ELSE {[Req("compute_mode", "q2") EXCEPT
           !.start = TimeNum(240), !.end = TimeNum(300)],
        [Req("increase_resolution", "q2") EXCEPT
           !.start = TimeNum(240), !.end = TimeNum(300), !.ticks = 2,
           !.symbols = <<"B">>]}

InitWindow == InitWith({1, 2, 6}, << >>)

NextWindow ==
  \/ MainScanOk
  \/ MainLoaded
  \/ ReloadTick
  \/ \E p \in Procs : LoadSteps(p)
  \/ \E c \in Conns :
       \/ ConnOpen(c, "")
       \/ ConnClose(c)
       \/ \E req \in WindowRequests(c) :
            \/ ComputeMode(c, req)
            \/ IncreaseResolution(c, req)
       \/ ConnScanOk(c)
       \/ ConnLoaded(c)
       \/ ComputeModeReply(c)
       \/ ItemStep(c)

SpecWindow == InitWindow /\ [][NextWindow]_vars

(***************************************************************************)
(* SpecTicks: increase_resolution with every tick budget and window of a   *)
(* small set, after the preload.                                           *)
(***************************************************************************)
TickBudgets == {-1, 0, 1, 2, 3, 4}
TickWindows ==
  {<<TimeNum(60), TimeNum(180)>>, <<TimeNum(60), TimeNum(60)>>,
   <<TimeNum(60), TimeNum(61)>>, <<TimeNum(100500), TimeNum(160200)>>}

TicksRequests ==
  {[Req("increase_resolution", "q1") EXCEPT
      !.start = w[1], !.end = w[2], !.ticks = t, !.symbols = <<"A">>] :
   w \in TickWindows, t \in TickBudgets}

InitTicks == InitWith({1, 2}, << >>)

NextTicks ==
  \/ MainScanOk
  \/ MainLoaded
  \/ \E p \in {"main", "c1"} : LoadSteps(p)
  \/ ConnOpen("c1", "")
  \/ ConnClose("c1")
  \/ \E req \in TicksRequests : IncreaseResolution("c1", req)
  \/ ConnScanOk("c1")
  \/ ConnLoaded("c1")
  \/ ItemStep("c1")

SpecTicks == InitTicks /\ [][NextTicks]_vars

(***************************************************************************)
(* SpecFrame: the timeframe of stores whose window spans 0 minutes up to   *)
(* more than a week.                                                       *)
(***************************************************************************)
FrameDisks == {{}, {1}, {1, 2, 4}} \cup {{1, 2, f} : f \in 8..15}

InitFrame == \E d \in FrameDisks : InitWith(d, << >>)

NextFrame ==
  \/ MainScanOk
  \/ LoadSteps("main")
  \/ MainLoaded
  \/ ConnOpen("c1", "")
  \/ ConnClose("c1")
  \/ Timeframe("c1", Req("timeframe", "q1"))
  \/ TimeframeLock("c1")
  \/ TimeframeRLock("c1")
  \/ TimeframeReadStart("c1")
  \/ TimeframeReadEnd("c1")
  \/ TimeframeReadQuality("c1")
  \/ TimeframeRUnlock("c1")
  \/ TimeframeDone("c1")

SpecFrame == InitFrame /\ [][NextFrame]_vars

(***************************************************************************)
(* SpecSymbols: the timeframe and the symbol list of stores that differ in *)
(* the symbols they hold and in the minutes each symbol covers.            *)
(***************************************************************************)
SymbolDisks == {{}, {3}, {1, 2}, {1, 2, 6, 8}, {1, 8, 9}}

SymbolRequests ==
  {Req("timeframe", "q1"),
   [Req("increase_resolution", "q1") EXCEPT
      !.start = TimeNum(60), !.end = TimeNum(180), !.ticks = 3]}

InitSymbols == \E d \in SymbolDisks : InitWith(d, << >>)

NextSymbols ==
  \/ MainScanOk
  \/ MainLoaded
  \/ \E p \in {"main", "c1"} : LoadSteps(p)
  \/ ConnOpen("c1", "")
  \/ ConnClose("c1")
  \/ \E req \in SymbolRequests :
       \/ Timeframe("c1", req)
       \/ IncreaseResolution("c1", req)
  \/ ConnScanOk("c1")
  \/ ConnLoaded("c1")
  \/ ListSymbols("c1")
  \/ ItemStep("c1")
  \/ TimeframeLock("c1")
  \/ TimeframeRLock("c1")
  \/ TimeframeReadStart("c1")
  \/ TimeframeReadEnd("c1")
  \/ TimeframeReadQuality("c1")
  \/ TimeframeRUnlock("c1")
  \/ TimeframeDone("c1")

SpecSymbols == InitSymbols /\ [][NextSymbols]_vars

(***************************************************************************)
(* SpecSession: two connections, each without a session cookie or with one *)
(* the server issued before, work on the session table while time passes.  *)
(***************************************************************************)
\* a second computeStatePayload, with no markers and no compute mode
OtherState ==
  [present |-> TRUE, computeMode |-> FALSE, rangeStart |-> 5, rangeEnd |-> 6,
   markers |-> EmptyMap, ticksRequested |-> 7, lastSymbol |-> "B",
   rangeStartTime |-> "", rangeEndTime |-> "240000", resolution |-> "5m",
   customResolutionSeconds |-> 0]

SessionOps(c) ==
  {Req("state_get", "q1"),
   Req("state_reset", "q1"),
   [Req("state_update", "q1") EXCEPT
      !.state = IF c = "c1" THEN SomeState ELSE OtherState],
   IF c = "c1"
   THEN [Req("range_selection", "q1") EXCEPT
           !.start = TimeNum(120), !.end = TimeNum(180), !.rangeStart = 3,
           !.rangeEnd = 4]
   ELSE [Req("range_selection", "q1") EXCEPT
           !.start = TimeNum(60), !.end = TimeNum(120), !.rangeStart = 1,
           !.rangeEnd = 2, !.computeMode = "true"]}

\* the session ids the server has issued in a Set-Cookie header so far
IssuedIDs == {handshake[c].setCookie : c \in Conns} \ {""}

InitSession == InitWith({}, << >>)

NextSession ==
  \/ MainScanOk
  \/ LoadSteps("main")
  \/ MainLoaded
  \/ (now = NowInit /\ Tick)
  \/ \E c \in Conns :
       \/ \E cookie \in {""} \cup IssuedIDs : ConnOpen(c, cookie)
       \/ (Len(requests[c]) = 1 /\ ConnClose(c))
       \/ \E req \in SessionOps(c) :
            \/ StateGet(c, req)
            \/ StateUpdate(c, req)
            \/ RangeSelection(c, req)
            \/ StateReset(c, req)
       \/ SessionSteps(c)

SpecSession == InitSession /\ [][NextSession]_vars

(***************************************************************************)
(* SpecBlock: one connection asks for range loads, the reloader reloads,   *)
(* and a second connection queries the store meanwhile.                    *)
(***************************************************************************)
BlockRequests(c) ==
  IF c = "c1"
  THEN {[Req("compute_mode", "q1") EXCEPT
           !.start = TimeNum(60), !.end = TimeNum(120)]}
  ELSE {Req("timeframe", "q2"),
        [Req("price_overview", "q2") EXCEPT
           !.symbol = "A", !.start = TimeNum(60), !.end = TimeNum(239),
           !.resolution = 60],
        [Req("price_overview_batch", "q2") EXCEPT
           !.symbols = <<"A", "B">>, !.start = TimeNum(60), !.end = TimeNum(299),
           !.resolution = 60]}

\* the steps of connection c that read the store
QuerySteps(c) ==
  \/ \E req \in BlockRequests(c) :
       \/ Timeframe(c, req)
       \/ PriceOverview(c, req)
       \/ BatchStart(c, req)
  \/ ItemStep(c)
  \/ TimeframeLock(c)
  \/ TimeframeRLock(c)
  \/ TimeframeReadStart(c)
  \/ TimeframeReadEnd(c)
  \/ TimeframeReadQuality(c)
  \/ TimeframeRUnlock(c)
  \/ TimeframeDone(c)

NextBlock ==
  \/ MainScanOk
  \/ MainLoaded
  \/ ReloadTick
  \/ \E p \in Procs : LoadSteps(p)
  \/ \E c \in Conns : ConnOpen(c, "")
  \/ \E req \in BlockRequests("c1") : ComputeMode("c1", req)
  \/ ConnScanOk("c1")
  \/ ConnLoaded("c1")
  \/ ComputeModeReply("c1")
  \/ QuerySteps("c2")

SpecBlock == InitCache /\ [][NextBlock]_vars

(***************************************************************************)
(* SpecReload: the periodic reloader while a root directory becomes        *)
(* unreadable and readable again, and a connection asks for the timeframe. *)
(***************************************************************************)
NextReload ==
  \/ \E r \in {"r1", "r2"}, st \in {"ok", "denied", "unlistable"} : SetRoot(r, st)
  \/ MainSteps
  \/ LoadSteps("main")
  \/ Tick
  \/ ConnOpen("c1", "")
  \/ \E req \in CacheRequests : Timeframe("c1", req)
  \/ TimeframeLock("c1")
  \/ TimeframeRLock("c1")
  \/ TimeframeReadStart("c1")
  \/ TimeframeReadEnd("c1")
  \/ TimeframeReadQuality("c1")
  \/ TimeframeRUnlock("c1")
  \/ TimeframeDone("c1")

SpecReload == InitCache /\ [][NextReload]_vars

(***************************************************************************)
(* SpecShared: two connections of one client, the second presenting the    *)
(* cookie the first was handed, work on the same session while time passes.*)
(***************************************************************************)
NextShared ==
  \/ MainScanOk
  \/ LoadSteps("main")
  \/ MainLoaded
  \/ (now = NowInit /\ Tick)
  \/ ConnOpen("c1", "")
  \/ \E cookie \in IssuedIDs : ConnOpen("c2", cookie)
  \/ \E c \in Conns :
       \/ \E req \in SessionOps(c) :
            \/ StateGet(c, req)
            \/ StateUpdate(c, req)
            \/ RangeSelection(c, req)
            \/ StateReset(c, req)
       \/ SessionSteps(c)

SpecShared == InitSession /\ [][NextShared]_vars

(***************************************************************************)
(* Properties.                                                             *)
(***************************************************************************)
\* the items of a batch or increase_resolution reply
ItemsOf(resp) ==
  IF resp.type = "price_overview_batch" THEN resp.data
  ELSE IF resp.type = "increase_resolution" THEN resp.data.items
  ELSE << >>

\* the fields buildTimeframeResponse has read so far
FieldsRead(c) == DOMAIN loc[c].viewSrc

\* C1: every store read computes its result from one snapshot installed by a
\* rebuild: at every point of buildTimeframeResponse the fields read so far
\* (window bounds, coverage index) were all written by the same rebuild and
\* have the values that rebuild built, and every overview item is what
\* buildPriceOverview yields on the price index of one rebuild.
C1_ReadsOneSnapshot ==
  \A c \in Conns :
    /\ \A f \in FieldsRead(c), g \in FieldsRead(c) :
         loc[c].viewSrc[f] = loc[c].viewSrc[g]
    /\ "startTS" \in FieldsRead(c) =>
         loc[c].view.startTS = loc[c].viewSrc["startTS"].startTS
    /\ "endTS" \in FieldsRead(c) =>
         loc[c].view.endTS = loc[c].viewSrc["endTS"].endTS
    /\ "qualityBySymbol" \in FieldsRead(c) =>
         loc[c].view.qualityBySymbol = loc[c].viewSrc["qualityBySymbol"].quality
    /\ \A i \in 1..Len(loc[c].items) :
         LET item == loc[c].items[i]
             o == buildPriceOverview(PointsOf(item.src.prices, item.symbol),
                                     loc[c].start, loc[c].end, loc[c].resolution)
         IN item.data = (IF o.ok THEN o.data ELSE NilData)

\* C1 witness: buildTimeframeResponse has read all three fields of a loaded
\* store while the reloader waits for the lock with a rebuilt index
C1_Witness ==
  /\ pc["c1"] = "tf_runlock"
  /\ FieldsRead("c1") = {"startTS", "endTS", "qualityBySymbol"}
  /\ pc["main"] = "lock_wait"
  /\ loc["main"].idx # loc["c1"].viewSrc["startTS"]

\* C2: all items of one price_overview_batch or increase_resolution reply
\* are built from the same store snapshot, whatever reloads happen while the
\* handler iterates over the symbols.
C2_BatchFromOneSnapshot ==
  \A c \in Conns : \A i \in 1..Len(responses[c]) :
    LET items == ItemsOf(responses[c][i]) IN
    \A j \in 1..Len(items), k \in 1..Len(items) : items[j].src = items[k].src

\* C3: on a connection the handler writes exactly one response for every
\* request read, carrying that request's id, before it reads the next one:
\* the responses follow the requests one to one and in order.
C3_OneResponsePerRequest ==
  \A c \in Conns :
    /\ pc[c] \in {"connecting", "read", "closed"} =>
          Len(responses[c]) = Len(requests[c])
    /\ pc[c] \notin {"connecting", "read", "closed"} =>
          Len(responses[c]) = Len(requests[c]) - 1
    /\ \A i \in 1..Len(responses[c]) : responses[c][i].id = requests[c][i].id

\* C3 witness: two requests with different ids, of which the first failed,
\* have both been answered
C3_Witness ==
  /\ Len(responses["c1"]) = 2
  /\ responses["c1"][1].type = "error"
  /\ responses["c1"][2].type # "error"
  /\ requests["c1"][1].id # requests["c1"][2].id

\* C4: an error response never ends the connection: a step that writes an
\* error response leaves the connection waiting for the next request, and a
\* connection is closed only from that wait, by a failed read.
C4_ErrorKeepsServing ==
  [][\A c \in Conns :
       /\ (Len(responses'[c]) > Len(responses[c])
           /\ responses'[c][Len(responses'[c])].type = "error")
          => pc'[c] = "read"
       /\ (pc'[c] = "closed" /\ pc[c] # "closed")
          => (pc[c] = "read" /\ responses'[c] = responses[c]
              /\ requests'[c] = requests[c])]_vars

\* C4 witness: after an error response the connection read and answered
\* another request and is serving
C4_Witness ==
  /\ Len(responses["c1"]) = 2
  /\ responses["c1"][1].type = "error"
  /\ responses["c1"][1].message = "could not load range"
  /\ pc["c1"] = "read"

\* the symbols that occur in the data directories
FileSymbols == {Files[f].symbol : f \in FileIds}

\* the request types that carry a time range
RangeTypes ==
  {"range_selection", "price_overview", "price_overview_batch", "compute_mode",
   "increase_resolution"}

\* the time range of a request is unparseable, or its end is before its start
InvalidRange(req) ==
  /\ req.type \in RangeTypes
  /\ \/ req.start.k = "bad"
     \/ req.end.k = "bad"
     \/ /\ req.start.k = "num"
        /\ req.end.k = "num"
        /\ parseDateTime(req.end).t < parseDateTime(req.start).t

\* a price_overview, otherwise well-formed, for a symbol the store never holds
UnknownSymbol(req) ==
  /\ req.type = "price_overview"
  /\ req.symbol # ""
  /\ req.symbol \notin FileSymbols
  /\ ~InvalidRange(req)
  /\ req.resolution >= 0

\* C5 as claimed: a price_overview for an unknown symbol, a request with an
\* invalid time range and a request of an unrecognized type are each
\* answered with a response of type "error" carrying the request's id.
C5_QueryErrorsAreErrors ==
  \A c \in Conns : \A i \in 1..Len(responses[c]) :
    LET req == requests[c][i]
        resp == responses[c][i]
    IN (UnknownSymbol(req) \/ InvalidRange(req) \/ req.type \notin RequestTypes)
         => (resp.type = "error" /\ resp.id = req.id)

\* C5 amended: a request with an invalid time range (of a type that carries
\* one) and a request of an unrecognized type are answered with type "error"
\* and the request's id; a price_overview for an unknown symbol is answered
\* with type "price_overview", the request's id and no data.
C5_ErrorsAndUnknownSymbol ==
  \A c \in Conns : \A i \in 1..Len(responses[c]) :
    LET req == requests[c][i]
        resp == responses[c][i]
    IN /\ (InvalidRange(req) \/ req.type \notin RequestTypes)
            => (resp.type = "error" /\ resp.id = req.id)
       /\ UnknownSymbol(req)
            => (resp.type = "price_overview" /\ resp.id = req.id
                /\ resp.data = NilData)

\* C5 witness: the three conditions have been answered (two of them on this
\* connection: an unknown symbol, then a range with its end before its start)
C5_Witness ==
  /\ Len(responses["c1"]) = 2
  /\ UnknownSymbol(requests["c1"][1])
  /\ InvalidRange(requests["c1"][2])
  /\ requests["c1"][2].start.k = "num"

\* the scan of process p has seen the roots
Scanned(p) == DOMAIN loc[p].rootsSeen # {}

\* C6 as claimed: whenever a root could not be read at a scan, for any cause
\* including a missing root, the scan failed.
C6_AnyUnreadableRootFails ==
  \A p \in Procs :
    (Scanned(p) /\ \E r \in DOMAIN loc[p].rootsSeen : loc[p].rootsSeen[r] # "ok")
      => loc[p].err # NoErr

\* C6 amended: a scan that meets a root which exists and cannot be read
\* (os.Stat fails for another cause than not-exist, or the directory cannot
\* be listed) fails, the process returns without taking the lock, and the
\* store with its window bounds, coverage index and price index is unchanged.
C6_UnreadableRootKeepsSnapshot ==
  [][\A p \in Procs :
       (/\ pc[p] = "scan"
        /\ pc'[p] # "scan"
        /\ \E r \in DOMAIN rootState : rootState[r] \in {"denied", "unlistable"})
       => /\ pc'[p] \in {"wait", "read"}
          /\ loc'[p].err # NoErr
          /\ store' = store
          /\ storeSrc' = storeSrc]_vars

\* C6 witness: a load has failed on an unreadable root and the store still
\* holds the snapshot of an earlier load
C6_Witness ==
  \E p \in Procs :
    /\ loc[p].err \in {"stat failed", "readdir failed"}
    /\ pc[p] \in {"wait", "read"}
    /\ DOMAIN store.priceBySymbol # {}
    /\ storeMu.writer = None

\* C7: an individual file that cannot be opened or parsed is skipped: a scan
\* whose roots are all readable or missing succeeds.
C7_BadFileIsSkipped ==
  \A p \in Procs :
    (Scanned(p) /\ \A r \in DOMAIN loc[p].rootsSeen :
                      loc[p].rootsSeen[r] \in {"ok", "missing"})
      => loc[p].err = NoErr

\* applyPoint over a whole sequence of ticks
RECURSIVE applyAll(_, _)
applyAll(ticks, idx) ==
  IF ticks = << >> THEN idx
  ELSE applyAll(Tail(ticks),
                applyPoint(Head(ticks).symbol, Head(ticks).ts, Head(ticks).price, idx))

\* the orders in which a sequence can arrive
Orders(ticks) ==
  {[i \in 1..Len(ticks) |-> ticks[f[i]]] :
     f \in {g \in [1..Len(ticks) -> 1..Len(ticks)] :
              \A i, j \in 1..Len(ticks) : g[i] = g[j] => i = j}}

\* C8: the (timestamp, price) stored for a symbol and minute is the same for
\* every order in which the ticks are ingested.
C8_StoredPriceIgnoresOrder ==
  applyPos = Len(ticksIn) =>
    \A other \in Orders(ticksIn) : applyAll(other, EmptyIndex).prices = applyIdx.prices

\* the ticks accepted by the rebuild that the store's indexes came from
Accepted == storeSrc.priceBySymbol.applied

\* C9: after a successful load the window is [min(ts), max(ts)] over the
\* accepted ticks of that rebuild.
C9_WindowSpansAcceptedTicks ==
  (storeMu.writer = None /\ Accepted # {}) =>
     /\ \A t \in Accepted : store.startTS <= t.ts /\ t.ts <= store.endTS
     /\ \E t \in Accepted : t.ts = store.startTS
     /\ \E t \in Accepted : t.ts = store.endTS

\* the instant ts (milliseconds) lies in the minute that starts at second m
InMinute(ts, m) == m % 60 = 0 /\ m * 1000 <= ts /\ ts < (m + 60) * 1000

Covered == storeSrc.qualityBySymbol.applied

\* the minutes of a resolution label
LabelMinutes(label) ==
  IF label = "12h" THEN 720 ELSE IF label = "1h" THEN 60
  ELSE IF label = "10m" THEN 10 ELSE IF label = "5m" THEN 5 ELSE 1

\* response i of the connection is a timeframe response with a bitmap
HasBitmap(i) ==
  /\ responses["c1"][i].type = "timeframe"
  /\ responses["c1"][i].data.frameQuality # << >>

\* C11: in a timeframe response with coverage resolution res minutes and
\* window start minute S, every symbol's quality array has the same length
\* and quality[j] is 1 iff the symbol has an accepted tick in a minute m with
\* S + j*res <= m < S + (j+1)*res.
C11_BitmapIffTickInBucket ==
  \A i \in 1..Len(responses["c1"]) :
    HasBitmap(i) =>
      LET res == LabelMinutes(responses["c1"][i].data.resolution)
          S == store.startTS \div 60000
          fq == responses["c1"][i].data.frameQuality
      IN \A k \in 1..Len(fq) :
           /\ Len(fq[k].quality) = Len(fq[1].quality)
           /\ \A j \in 1..Len(fq[k].quality) :
                fq[k].quality[j] = 1 <=>
                  \E t \in Covered :
                    /\ t.symbol = fq[k].symbol
                    /\ S + (j - 1) * res <= t.ts \div 60000
                    /\ t.ts \div 60000 < S + j * res

\* request i of the connection: its range in milliseconds and in the whole
\* seconds of the overview, its resolution, the stored points of its symbol
StartMs(i) == parseDateTime(requests["c1"][i].start).t
EndMs(i) == parseDateTime(requests["c1"][i].end).t
StartSec(i) == StartMs(i) \div 1000
EndSec(i) == EndMs(i) \div 1000
Res(i) == requests["c1"][i].resolution
Stored(i) == PointsOf(store.priceBySymbol, requests["c1"][i].symbol)

\* response i of the connection is a price overview payload
IsPayload(i) ==
  /\ responses["c1"][i].type = "price_overview"
  /\ responses["c1"][i].data # NilData

\* the latest of a non-empty set of minutes
Latest(S) == CHOOSE m \in S : \A u \in S : u <= m

\* C12: for a resolution R >= 60 seconds, prices[i] is the stored price of
\* the latest minute with data among the minutes inside bucket i =
\* [start + i*R, start + (i+1)*R), clipped to end, and null when there is
\* none: no minute is reported in a bucket it lies outside of.
C12_BucketPriceFromInside ==
  \A i \in 1..Len(responses["c1"]) :
    (IsPayload(i) /\ Res(i) >= 60) =>
      \A j \in 1..Len(responses["c1"][i].data.prices) :
        LET bs == StartSec(i) + (j - 1) * Res(i)
            inside == {m \in DOMAIN Stored(i) :
                         bs <= m /\ m < bs + Res(i) /\ m <= EndSec(i)}
        IN responses["c1"][i].data.prices[j] =
             (IF inside = {} THEN Null ELSE Stored(i)[Latest(inside)].price)

\* C13 as claimed: every overview payload for start <= end and R > 0 has
\* prices and datetimes of the length floor((end - start) / R) + 1, and
\* datetimes[i] is start + i*R (formatted to the second).
C13_OneEntryPerBucket ==
  \A i \in 1..Len(responses["c1"]) :
    IsPayload(i) =>
      LET d == responses["c1"][i].data
          n == (EndMs(i) - StartMs(i)) \div (Res(i) * 1000) + 1
      IN /\ Len(d.prices) = n
         /\ Len(d.datetimes) = n
         /\ \A j \in 1..Len(d.datetimes) :
              d.datetimes[j] = (StartMs(i) + (j - 1) * Res(i) * 1000) \div 1000

\* C13 amended: with start and end truncated to whole seconds, every
\* overview payload has prices and datetimes of the length
\* floor((end - start) / R) + 1 and datetimes[i] is start + i*R.
C13_OneEntryPerBucketOfSeconds ==
  \A i \in 1..Len(responses["c1"]) :
    IsPayload(i) =>
      LET d == responses["c1"][i].data
          n == (EndSec(i) - StartSec(i)) \div Res(i) + 1
      IN /\ Len(d.prices) = n
         /\ Len(d.datetimes) = n
         /\ \A j \in 1..Len(d.datetimes) :
              d.datetimes[j] = StartSec(i) + (j - 1) * Res(i)

\* C13 witness: a payload for a range given between whole seconds, and one
\* for a range of whole minutes
C13_Witness ==
  /\ Len(responses["c1"]) = 2
  /\ IsPayload(1)
  /\ StartMs(1) % 1000 # 0
  /\ Len(responses["c1"][1].data.prices) = 2
  /\ IsPayload(2)
  /\ Len(responses["c1"][2].data.datetimes) = 3

\* the minute that holds second t
MinuteOf(t) == t - (t % 60)

\* C14: for a resolution R < 60 seconds, prices[i] is the price stored for
\* the minute that holds the last second of bucket i (clipped to end) and
\* null when that minute has no stored price.
C14_SubMinuteUsesEndMinute ==
  \A i \in 1..Len(responses["c1"]) :
    (IsPayload(i) /\ Res(i) < 60) =>
      \A j \in 1..Len(responses["c1"][i].data.prices) :
        LET last == StartSec(i) + j * Res(i) - 1
            m == MinuteOf(IF last > EndSec(i) THEN EndSec(i) ELSE last)
        IN responses["c1"][i].data.prices[j] =
             (IF m \in DOMAIN Stored(i) THEN Stored(i)[m].price ELSE Null)

\* C14 witness: a sub-minute payload with a bucket that starts in a minute
\* with a price and ends in a minute without one, and so is null
C14_Witness ==
  \E i \in 1..Len(responses["c1"]) :
    /\ IsPayload(i)
    /\ Res(i) < 60
    /\ \E j \in 1..Len(responses["c1"][i].data.prices) :
         /\ responses["c1"][i].data.prices[j] = Null
         /\ MinuteOf(StartSec(i) + (j - 1) * Res(i)) \in DOMAIN Stored(i)

\* response i answers a well-formed price_overview (payload or not found)
IsOverview(i) == responses["c1"][i].type = "price_overview"

\* the stored minutes that the buckets of request i look at: from the minute
\* of the start (of the first bucket's last second when R < 60) to end
Consulted(i) ==
  LET first == IF Res(i) >= 60 THEN StartSec(i)
               ELSE IF StartSec(i) + Res(i) - 1 > EndSec(i) THEN EndSec(i)
               ELSE StartSec(i) + Res(i) - 1
  IN {m \in DOMAIN Stored(i) : MinuteOf(first) <= m /\ m <= EndSec(i)}

\* C15 as claimed: buildPriceOverview reports "not found" only when the
\* symbol has no stored point; whenever it has one, the reply is a payload
\* with one entry per bucket.
C15_NotFoundOnlyWithoutPoints ==
  \A i \in 1..Len(responses["c1"]) :
    IsOverview(i) =>
      /\ ~IsPayload(i) => DOMAIN Stored(i) = {}
      /\ DOMAIN Stored(i) # {} =>
           /\ IsPayload(i)
           /\ Len(responses["c1"][i].data.prices) =
                (EndSec(i) - StartSec(i)) \div Res(i) + 1

\* C15 amended: buildPriceOverview reports "not found" exactly when no
\* bucket of the request has a price (the symbol has no stored point, or
\* none in the minutes the buckets look at); otherwise the reply is a
\* payload with one entry per bucket, of which at least one is not null.
C15_NotFoundIffNoBucketHasPrice ==
  \A i \in 1..Len(responses["c1"]) :
    IsOverview(i) =>
      /\ ~IsPayload(i) <=> Consulted(i) = {}
      /\ IsPayload(i) =>
           /\ Len(responses["c1"][i].data.prices) =
                (EndSec(i) - StartSec(i)) \div Res(i) + 1
           /\ \E j \in 1..Len(responses["c1"][i].data.prices) :
                responses["c1"][i].data.prices[j] # Null

\* C15 witness: "not found" for a symbol with stored points and none in the
\* range, and a payload with a null bucket
C15_Witness ==
  /\ Len(responses["c1"]) = 2
  /\ IsOverview(1) /\ ~IsPayload(1) /\ DOMAIN Stored(1) # {}
  /\ IsPayload(2)
  /\ \E j \in 1..Len(responses["c1"][2].data.prices) :
       responses["c1"][2].data.prices[j] = Null

\* the symbols of a list that are not blank, in the order of the list
Named(symbols) == LET Test(x) == x # "" IN SelectSeq(symbols, Test)

\* request i is a price_overview_batch with a valid range and resolution
IsBatch(i) ==
  /\ requests["c1"][i].type = "price_overview_batch"
  /\ ~InvalidRange(requests["c1"][i])
  /\ requests["c1"][i].start.k = "num"
  /\ requests["c1"][i].end.k = "num"
  /\ requests["c1"][i].resolution > 0

\* request j is a single price_overview for the symbol over the range and
\* resolution of request i
SingleFor(j, i, symbol) ==
  /\ IsOverview(j)
  /\ requests["c1"][j].symbol = symbol
  /\ requests["c1"][j].start = requests["c1"][i].start
  /\ requests["c1"][j].end = requests["c1"][i].end
  /\ requests["c1"][j].resolution = requests["c1"][i].resolution

\* C16: a price_overview_batch whose list holds an unknown symbol gets one
\* non-error response with one item per non-blank symbol in request order;
\* the unknown symbol's item has no data and every other item carries the
\* payload a single price_overview for its symbol returns.
C16_BatchKeepsSiblings ==
  \A i \in 1..Len(responses["c1"]) :
    IsBatch(i) =>
      LET items == responses["c1"][i].data
          named == Named(requests["c1"][i].symbols)
      IN /\ responses["c1"][i].type = "price_overview_batch"
         /\ Len(items) = Len(named)
         /\ \A k \in 1..Len(items) :
              /\ items[k].symbol = named[k]
              /\ items[k].symbol \notin DOMAIN store.priceBySymbol
                   => items[k].data = NilData
              /\ \A j \in 1..Len(responses["c1"]) :
                   SingleFor(j, i, items[k].symbol)
                     => items[k].data = responses["c1"][j].data

\* C16 witness: a batch with an unknown symbol, answered with an item without
\* data for it and with a payload for a sibling, the payload of the single
\* price_overview that was answered before
C16_Witness ==
  /\ Len(responses["c1"]) = 2
  /\ IsBatch(2)
  /\ IsPayload(1)
  /\ LET items == responses["c1"][2].data
     IN /\ Len(items) = 3
        /\ items[1].symbol \notin DOMAIN store.priceBySymbol
        /\ items[1].data = NilData
        /\ SingleFor(1, 2, items[2].symbol)
        /\ items[2].data # NilData

\* the snapshot installed last: priceBySymbol is the last field a swap writes
Installed == storeSrc.priceBySymbol

\* process p is at the last assignment of the swap of a full load that
\* scanned the tree (files and roots) the installed full load had scanned
ReloadsSameTree(p) ==
  /\ pc[p] = "w_prices"
  /\ ~loc[p].idx.scanned.range.on
  /\ Installed # EmptyIndex
  /\ Installed.scanned = loc[p].idx.scanned

\* C17: reload is idempotent: when a full load ends on the directory tree
\* that the load before it had scanned, the store is what it was when the
\* load began, and so are the timeframe response and every price overview.
C17_ReloadIdempotent ==
  [][\A p \in Procs :
       (ReloadsSameTree(p) /\ pc'[p] = "loaded") =>
          /\ store' = loc[p].before
          /\ buildTimeframeResponse(store', now') =
               buildTimeframeResponse(loc[p].before, now')
          /\ \A sym \in Symbols :
               PointsOf(store'.priceBySymbol, sym) =
                 PointsOf(loc[p].before.priceBySymbol, sym)]_vars

\* C17 witness: the reloader ends a second full load of an unchanged tree
\* that holds data of two symbols
C17_Witness ==
  /\ ReloadsSameTree("main")
  /\ reloads > 0
  /\ Cardinality(DOMAIN loc["main"].before.priceBySymbol) = 2
  /\ loc["main"].before.endTS > 0

\* the date and time that the directory and the name of a file encode:
\* the name is HH_MM under the date directory, or a millisecond timestamp
EncodedMs(f) ==
  LET r == parseDirFileTimestamp(Files[f].date, Files[f].hm)
  IN IF r.ok THEN r.ts ELSE Files[f].ms

\* the files of a scanned tree that lie in the scan's window, bounds included
FilesInWindow(scanned) ==
  {f \in scanned.disk :
     scanned.range.startMs <= EncodedMs(f) /\ EncodedMs(f) <= scanned.range.endMs}

\* the store that a swap of the index idx leaves
StoreOf(idx) ==
  [startTS |-> idx.startTS, endTS |-> idx.endTS,
   qualityBySymbol |-> idx.quality, priceBySymbol |-> idx.prices]

\* C18: the store after loadRange(roots, start, end) equals the store after
\* load on the tree that holds only the files whose directory-encoded date
\* and time lies in [start, end].
C18_RangeLoadIsFilteredLoad ==
  (storeMu.writer = None /\ Installed # EmptyIndex /\ Installed.scanned.range.on) =>
    LET full == Scan(FilesInWindow(Installed.scanned), Installed.scanned.roots,
                     NoRange)
    IN full.err = NoErr => store = StoreOf(full.idx)

\* the age of the cached payload, and whether it is below the TTL
CacheAge == now - cache.updatedAt
Young == cache.updatedAt # 0 /\ CacheAge < cacheTTL

\* the step hands a timeframe payload to connection c
HandsOut(c) ==
  /\ Len(responses'[c]) = Len(responses[c]) + 1
  /\ responses'[c][Len(responses'[c])].type = "timeframe"

Handed(c) == responses'[c][Len(responses'[c])].data

\* C19: getOrBuild returns the cached payload, without rebuilding, exactly
\* when its age is below the TTL (at the first check, or at the second one
\* after a rebuild that ended while the caller waited for the lock);
\* otherwise it returns the payload built during the call, stored with a
\* fresh timestamp.  No payload of an age at or beyond the TTL is handed out.
C19_CacheHitIffYoung ==
  [][\A c \in Conns :
       /\ HandsOut(c) =>
            \/ /\ pc[c] \in {"read", "tf_lock"}
               /\ cache.updatedAt # 0
               /\ ~(CacheAge >= cacheTTL)
               /\ Handed(c) = cache.payload
               /\ cache' = cache
            \/ /\ pc[c] = "tf_done"
               /\ cacheMu = c
               /\ cache'.updatedAt = now
               /\ cache'.payload = Handed(c)
       /\ (pc[c] = "read" /\ Len(requests'[c]) = Len(requests[c]) + 1) =>
            IF Young THEN HandsOut(c) /\ pc'[c] = "read"
            ELSE ~HandsOut(c) /\ pc'[c] = "tf_lock"
       /\ (pc[c] = "tf_lock" /\ pc'[c] # "tf_lock") =>
            IF Young
            THEN /\ HandsOut(c)
                 /\ loc[c].seen.at = cache.updatedAt
                 /\ loc[c].seen.payload = cache.payload
            ELSE ~HandsOut(c) /\ pc'[c] = "tf_rlock" /\ cacheMu' = c
  ]_vars

\* a connection was answered from the cache, the payload then reached the
\* age of the TTL, and a later call rebuilt it
C19_Witness ==
  /\ now = NowInit + MaxTicks * ClockStep
  /\ cache.updatedAt = now
  /\ Len(responses["c1"]) = 2
  /\ Len(responses["c2"]) = 1
  /\ pc["c1"] = "read"
  /\ reloads = 0

\* a build ended while d waited for c.mu.Lock() after a miss at the first
\* check, and the TTL has not elapsed since
BuiltWhileWaiting(d) ==
  /\ pc[d] = "tf_lock"
  /\ loc[d].seen.at # 0
  /\ now - loc[d].seen.at < cacheTTL

\* d leaves getOrBuild with the payload of that build, without building
TakesThatBuild(d) ==
  /\ HandsOut(d)
  /\ Handed(d) = loc[d].seen.payload
  /\ pc'[d] = "read"
  /\ cache' = cache

\* C20 as stated: of the callers that missed together the first one builds,
\* and every other one, when it gets the lock within the TTL, takes the
\* payload of that build and does not build again.
C20_OneBuildForConcurrentMisses ==
  [][\A d \in Conns :
       (BuiltWhileWaiting(d) /\ pc'[d] # "tf_lock") => TakesThatBuild(d)]_vars

\* C20 as the code has it: the same, when the cache has not been reset
\* (cache.reset) between the end of that build and the second check.
C20_OneBuildUnlessReset ==
  [][\A d \in Conns :
       (BuiltWhileWaiting(d) /\ cache.updatedAt # 0 /\ pc'[d] # "tf_lock")
         => TakesThatBuild(d)]_vars

\* both connections missed, c1 built, and c2 left getOrBuild at the second
\* check with the payload c1 built
C20_Witness ==
  /\ pc["c1"] = "read"
  /\ pc["c2"] = "read"
  /\ Len(responses["c1"]) = 1
  /\ Len(responses["c2"]) = 1
  /\ loc["c2"].seen.at # 0
  /\ cache.updatedAt = loc["c2"].seen.at
  /\ responses["c2"][1].data = loc["c2"].seen.payload
  /\ responses["c1"][1].data = responses["c2"][1].data

\* the reloader's cache.reset() returns in this step
ResetReturns ==
  pc["main"] = "loaded" /\ pc'["main"] = "wait" /\ reloads > 0

\* connection c enters getOrBuild in this step
CallStarts(c) ==
  pc[c] = "read" /\ Len(requests'[c]) = Len(requests[c]) + 1

\* C21: reset() leaves the cache without a stamp whatever the age of the
\* payload; a getOrBuild call that finds it so misses at the first check and
\* builds at the second one, and a call that missed returns either the
\* payload it built or one that was stored while it waited for the lock,
\* never one stored before the reset.
C21_ResetInvalidates ==
  [][/\ ResetReturns => cache'.updatedAt = 0 /\ cache'.payload = NilData
     /\ \A c \in Conns :
          /\ (CallStarts(c) /\ cache.updatedAt = 0) =>
               /\ ~HandsOut(c)
               /\ pc'[c] = "tf_lock"
               /\ loc'[c].seen.at = 0
          /\ (pc[c] = "tf_lock" /\ pc'[c] # "tf_lock" /\ cache.updatedAt = 0) =>
               /\ ~HandsOut(c)
               /\ pc'[c] = "tf_rlock"
          /\ (pc[c] = "tf_lock" /\ HandsOut(c)) =>
               /\ loc[c].seen.at # 0
               /\ Handed(c) = loc[c].seen.payload
          /\ (pc[c] = "tf_done" /\ HandsOut(c)) =>
               Handed(c) = buildTimeframeResponse(loc[c].view, now)
    ]_vars

\* c1 was answered with a payload built at this very instant, the reloader
\* reset the cache, and c1's next call is building again although the
\* payload stored before the reset had age zero
C21_Witness ==
  /\ now = NowInit
  /\ reloads > 0
  /\ pc["main"] = "wait"
  /\ pc["c1"] = "tf_rlock"
  /\ Len(responses["c1"]) = 1
  /\ responses["c1"][1].type = "timeframe"
  /\ pc["c2"] = "connecting"
  /\ cache.updatedAt = 0

\* the window of the request that response i of connection c answers
OwnRange(c, i) ==
  LET req == requests[c][i]
      r == parseStartEndStrings(req.start, req.end, now)
  IN Range(r.start, r.end)

\* C22: every item of an increase_resolution reply is computed from the
\* snapshot that the request's own loadFromDirsRange installed, a load of
\* exactly the requested window, whatever loads of other windows or full
\* reloads run at the same time.
C22_ItemsFromOwnRangeLoad ==
  \A c \in Conns : \A i \in 1..Len(responses[c]) :
    responses[c][i].type = "increase_resolution" =>
      \A j \in 1..Len(ItemsOf(responses[c][i])) :
        LET item == ItemsOf(responses[c][i])[j]
            own == Scan(disk, rootState, OwnRange(c, i)).idx.prices
            o == buildPriceOverview(PointsOf(own, item.symbol),
                                    OwnRange(c, i).startMs, OwnRange(c, i).endMs,
                                    responses[c][i].data.resolutionSeconds)
        IN /\ item.src.scanned.range = OwnRange(c, i)
           /\ item.data = IF o.ok THEN o.data ELSE NilData

\* the least n with n * d >= a
CeilDiv(a, d) == CHOOSE n \in 0..a : n * d >= a /\ \A m \in 0..(n - 1) : m * d < a

\* the whole seconds of the window of the request that response i answers
WindowSeconds(c, i) == (OwnRange(c, i).endMs - OwnRange(c, i).startMs) \div 1000

\* the resolution the claim gives for a tick budget and a window
ClaimedResolution(ticks, seconds) ==
  IF ticks <= 1 \/ seconds <= 0 THEN 60
  ELSE IF CeilDiv(seconds, ticks - 1) < 1 THEN 1
  ELSE CeilDiv(seconds, ticks - 1)

\* C23 as stated: the resolution of an increase_resolution reply is
\* ceil(window_seconds / (ticks - 1)) for the ticks of the request, at least
\* 1, and 60 when ticks <= 1 or the window has no whole second.
C23_ResolutionFromRequestTicks ==
  \A c \in Conns : \A i \in 1..Len(responses[c]) :
    responses[c][i].type = "increase_resolution" =>
      responses[c][i].data.resolutionSeconds =
        ClaimedResolution(requests[c][i].ticks, WindowSeconds(c, i))

\* C23 as the code has it: the same for the budget the handler uses, which
\* is 5000 when the request's ticks is absent, zero or negative.
C23_ResolutionFromEffectiveTicks ==
  \A c \in Conns : \A i \in 1..Len(responses[c]) :
    responses[c][i].type = "increase_resolution" =>
      responses[c][i].data.resolutionSeconds =
        ClaimedResolution(IF requests[c][i].ticks <= 0 THEN 5000
                          ELSE requests[c][i].ticks,
                          WindowSeconds(c, i))

\* a reply for 59 whole seconds and 3 ticks has resolution 30, and a reply
\* to a request without ticks has resolution 1
C23_Witness ==
  /\ Len(responses["c1"]) = 2
  /\ requests["c1"][1].ticks = 3
  /\ WindowSeconds("c1", 1) = 59
  /\ responses["c1"][1].type = "increase_resolution"
  /\ responses["c1"][1].data.resolutionSeconds = 30
  /\ requests["c1"][2].ticks = 0
  /\ WindowSeconds("c1", 2) = 120
  /\ responses["c1"][2].type = "increase_resolution"
  /\ responses["c1"][2].data.resolutionSeconds = 1

\* the span in whole minutes of the window a timeframe payload reports
SpanMinutes(data) ==
  IF data.end \div 60 < data.start \div 60 THEN 0
  ELSE data.end \div 60 - data.start \div 60

\* the resolution in minutes the thresholds give for a span, and its label
ClaimedMinutes(span) ==
  IF span <= 120 THEN 1 ELSE IF span <= 360 THEN 5
  ELSE IF span <= 1440 THEN 10 ELSE IF span <= 10080 THEN 60 ELSE 720

ClaimedLabel(span) ==
  IF span <= 120 THEN "1m" ELSE IF span <= 360 THEN "5m"
  ELSE IF span <= 1440 THEN "10m" ELSE IF span <= 10080 THEN "1h" ELSE "12h"

\* C24: the resolution label of a timeframe response is given by the span of
\* its window in whole minutes (<= 120: 1m, <= 360: 5m, <= 1440: 10m,
\* <= 10080: 1h, larger: 12h), and the bitmaps are built with the resolution
\* of the label: span / res + 1 buckets, a covered minute m of the window
\* setting bucket (m - start minute) / res.
C24_ResolutionBySpan ==
  \A i \in 1..Len(responses["c1"]) :
    HasBitmap(i) =>
      LET data == responses["c1"][i].data
          span == SpanMinutes(data)
          res == ClaimedMinutes(span)
          S == data.start \div 60
      IN /\ data.resolution = ClaimedLabel(span)
         /\ \A k \in 1..Len(data.frameQuality) :
              LET fq == data.frameQuality[k] IN
              /\ Len(fq.quality) = span \div res + 1
              /\ \A key \in store.qualityBySymbol[fq.symbol] :
                   (key \div 60 >= S /\ key \div 60 <= S + span) =>
                     fq.quality[(key \div 60 - S) \div res + 1] = 1

\* a timeframe response for a window of 361 minutes: ten-minute buckets
C24_Witness ==
  /\ Len(responses["c1"]) > 0
  /\ HasBitmap(1)
  /\ SpanMinutes(responses["c1"][1].data) = 361
  /\ responses["c1"][1].data.resolution = "10m"
  /\ Len(responses["c1"][1].data.frameQuality[1].quality) = 37

\* the symbols of a sequence of records or of names
SymbolsOf(fq) == {fq[k].symbol : k \in 1..Len(fq)}

Handshakes(c) == pc[c] = "connecting" /\ pc'[c] = "read"

\* the request that connection c reads in this step
ReadsRequest(c) == Len(requests'[c]) = Len(requests[c]) + 1
Read(c) == requests'[c][Len(requests'[c])]
\* the response that connection c writes in this step
Responds(c) == Len(responses'[c]) = Len(responses[c]) + 1
Written(c) == responses'[c][Len(responses'[c])]

\* the handler of connection c takes this step
Acts(c) == pc'[c] # pc[c] \/ loc'[c].k # loc[c].k
\* ... from position at to position to
Moves(c, at, to) == pc[c] = at /\ pc'[c] = to

\* the token of connection c: the cookie it presented, or else the id it
\* was handed in the Set-Cookie header
Token(c) ==
  IF handshake[c].cookie # "" THEN handshake[c].cookie ELSE handshake[c].setCookie

\* this step changes what is stored under id
Changes(id) ==
  IF Has(sessions, id) /\ Has(sessions', id) THEN sessions'[id] # sessions[id]
  ELSE Has(sessions, id) # Has(sessions', id)

\* connection c is in setState, updateRange or resetState
Writing(c) == pc[c] \in {"set_lock", "range_lock", "range_write", "reset_lock"}

\* C26: a handshake without a cookie creates a fresh session id and hands it
\* over in Set-Cookie; a handshake with a cookie takes its value as the
\* session id and sets no cookie; the id stays the connection's id for all
\* its requests, each of which reads and writes the state stored under the
\* connection's token and no other, so that a connection presenting a token
\* issued earlier works on the state stored under that token.
C26_TokenIsSessionID ==
  [][/\ \A c \in Conns :
          /\ Handshakes(c) =>
               IF handshake'[c].cookie = ""
               THEN /\ handshake'[c].setCookie # ""
                    /\ sessionID'[c] = handshake'[c].setCookie
                    /\ \A d \in Conns \ {c} : sessionID[d] # sessionID'[c]
                    /\ ~Has(sessions, sessionID'[c])
               ELSE /\ handshake'[c].setCookie = ""
                    /\ sessionID'[c] = handshake'[c].cookie
          /\ pc[c] # "connecting" =>
               /\ sessionID'[c] = sessionID[c]
               /\ handshake'[c] = handshake[c]
          /\ ReadsRequest(c) => sessionID[c] = Token(c)
          /\ (Moves(c, "get_rlock", "encode") \/ Moves(c, "reset_lock", "encode")) =>
               /\ loc'[c].obj.id = Token(c)
               /\ loc'[c].obj.live
               /\ loc'[c].out = sessions'[Token(c)]
          /\ Moves(c, "get_rlock", "read") =>
               /\ ~Has(sessions, Token(c))
               /\ Written(c).data = NilState
          /\ Moves(c, "set_lock", "read") => Has(sessions', Token(c))
     /\ \A id \in DOMAIN sessions \cup DOMAIN sessions' :
          Changes(id) => \E c \in Conns : Writing(c) /\ Acts(c) /\ Token(c) = id
    ]_vars

\* c1 came without a cookie, was handed n1 and stored a state; c2 came with
\* the cookie n1 and read that state
C26_Witness ==
  /\ handshake["c1"] = [cookie |-> "", setCookie |-> "n1"]
  /\ handshake["c2"] = [cookie |-> "n1", setCookie |-> ""]
  /\ pc["c1"] = "closed"
  /\ Len(requests["c1"]) = 1
  /\ requests["c1"][1].type = "state_update"
  /\ Len(responses["c2"]) = 1
  /\ requests["c2"][1].type = "state_get"
  /\ responses["c2"][1].data = sessions["n1"]
  /\ sessions["n1"].lastSymbol = "A"

\* the fields of a computeState that a client sends and receives
StateFields ==
  {"computeMode", "rangeStart", "rangeEnd", "markers", "ticksRequested",
   "lastSymbol", "rangeStartTime", "rangeEndTime", "resolution",
   "customResolutionSeconds"}

\* C27: state_update with state S stores under the connection's id a state
\* whose fields are those of S and nothing else but the time at which the
\* handler stamped it, whatever was stored before; state_get obtains the
\* state stored under the connection's id and, as long as nothing assigns
\* to that state while the response is written, returns it.
C27_ReplaceRoundTrips ==
  [][\A c \in Conns :
       /\ (ReadsRequest(c) /\ Read(c).type = "state_update"
           /\ Read(c).state.present) =>
            /\ pc'[c] = "set_lock"
            /\ loc'[c].stamp = now
       /\ Moves(c, "set_lock", "read") =>
            /\ Has(sessions', Token(c))
            /\ DOMAIN sessions'[Token(c)] = StateFields \cup {"updatedAt"}
            /\ \A f \in StateFields :
                 sessions'[Token(c)][f] = loc[c].req.state[f]
            /\ sessions'[Token(c)].updatedAt = loc[c].stamp
       /\ Moves(c, "get_rlock", "encode") =>
            loc'[c].obj.versions = {sessions[Token(c)]}
       /\ Moves(c, "get_rlock", "read") =>
            /\ ~Has(sessions, Token(c))
            /\ Written(c).type = "state"
            /\ Written(c).data = NilState
       /\ (pc[c] = "encode" /\ Responds(c) /\ loc[c].req.type = "state_get") =>
            /\ Written(c).type = "state"
            /\ Cardinality(loc[c].obj.versions) = 1 =>
                 Written(c).data \in loc[c].obj.versions
    ]_vars

\* c2 stored OtherState under n1 and read it back; after a tick c1 stored
\* SomeState under n1 and read back the fields of SomeState
C27_Witness ==
  /\ Token("c1") = "n1"
  /\ Token("c2") = "n1"
  /\ Len(responses["c1"]) = 2
  /\ Len(responses["c2"]) = 2
  /\ requests["c2"][1].type = "state_update"
  /\ responses["c2"][2].type = "state"
  /\ responses["c2"][2].data.lastSymbol = "B"
  /\ responses["c2"][2].data.updatedAt = NowInit
  /\ requests["c1"][1].type = "state_update"
  /\ requests["c1"][1].state = SomeState
  /\ responses["c1"][2].type = "state"
  /\ responses["c1"][2].data.updatedAt = NowInit + ClockStep
  /\ \A f \in StateFields : responses["c1"][2].data[f] = SomeState[f]

\* the fields update_range leaves alone
KeptFields ==
  {"markers", "ticksRequested", "lastSymbol", "resolution",
   "customResolutionSeconds"}

\* the zero value of a field of computeState
ZeroOf(f) ==
  IF f = "markers" THEN EmptyMap
  ELSE IF f = "computeMode" THEN FALSE
  ELSE IF f \in {"rangeStart", "rangeEnd", "ticksRequested",
                 "customResolutionSeconds"} THEN 0
  ELSE ""

\* the value of field f stored under id, the zero value when nothing is stored
StoredField(id, f) == IF Has(sessions, id) THEN sessions[id][f] ELSE ZeroOf(f)

\* C28: a range_selection that is accepted writes range_start, range_end,
\* the two range times and updated_at of the connection's session, and
\* compute_mode when the request carries it; markers, ticks_requested,
\* last_symbol, resolution, custom_resolution_seconds (and compute_mode when
\* absent from the request) keep the values stored when updateRange took
\* the lock, the zero values when no state was stored.
C28_UpdateRangeIsPartial ==
  [][\A c \in Conns :
       /\ (ReadsRequest(c) /\ pc'[c] = "range_lock") =>
            LET r == parseStartEndStrings(Read(c).start, Read(c).end, now)
            IN loc'[c].start = r.start /\ loc'[c].end = r.end
       /\ Moves(c, "range_lock", "range_write") =>
            \A f \in StateFields : loc'[c].was[f] = StoredField(Token(c), f)
       /\ Moves(c, "range_write", "read") =>
            LET req == loc[c].req
                old == loc[c].was
                new == sessions'[Token(c)]
            IN /\ Written(c).type = "range_selection"
               /\ new.rangeStart = req.rangeStart
               /\ new.rangeEnd = req.rangeEnd
               /\ new.rangeStartTime = ToString(loc[c].start)
               /\ new.rangeEndTime = ToString(loc[c].end)
               /\ new.updatedAt = now
               /\ req.computeMode # "absent" =>
                    new.computeMode = (req.computeMode = "true")
               /\ req.computeMode = "absent" =>
                    new.computeMode = old.computeMode
               /\ \A f \in KeptFields : new[f] = old[f]
    ]_vars

\* alone on its session, c1 stored SomeState and then selected the range
\* 3..4 without compute_mode: the markers and the compute mode are still
\* those of SomeState
C28_Witness ==
  /\ pc["c2"] = "connecting"
  /\ Len(responses["c1"]) = 2
  /\ requests["c1"][1].type = "state_update"
  /\ requests["c1"][1].state = SomeState
  /\ requests["c1"][2].type = "range_selection"
  /\ requests["c1"][2].computeMode = "absent"
  /\ responses["c1"][2].type = "range_selection"
  /\ sessions["n1"].rangeStart = 3
  /\ sessions["n1"].rangeEnd = 4
  /\ sessions["n1"].markers = SomeState.markers
  /\ sessions["n1"].computeMode
  /\ sessions["n1"].lastSymbol = "A"

\* C29: state_reset stores the zero-value state under the connection's id,
\* whatever was stored before, and answers with the zero-value state: every
\* field of the stored state and of the response is zero or empty.
C29_ResetStoresZero ==
  [][\A c \in Conns :
       /\ Moves(c, "reset_lock", "encode") =>
            /\ Has(sessions', Token(c))
            /\ \A f \in StateFields : sessions'[Token(c)][f] = ZeroOf(f)
            /\ sessions'[Token(c)].updatedAt = now
       /\ (pc[c] = "encode" /\ Responds(c) /\ loc[c].req.type = "state_reset") =>
            /\ Written(c).type = "state_reset"
            /\ \A f \in StateFields : Written(c).data[f] = ZeroOf(f)
    ]_vars

\* C30: the session table changes only in a step of setState, updateRange
\* or resetState, and such a step of a connection with id A leaves the state
\* stored under every other id B as it was (present or absent, and equal);
\* every field that a state_get or state_reset returns is a value that the
\* state under the connection's own id has had since the handler obtained it.
C30_SessionsIndependent ==
  [][/\ sessions' # sessions => \E c \in Conns : Writing(c) /\ Acts(c)
     /\ \A c \in Conns :
          /\ Acts(c) =>
               /\ \A id \in DOMAIN sessions \ {sessionID[c]} :
                    Has(sessions', id) /\ sessions'[id] = sessions[id]
               /\ DOMAIN sessions' \subseteq DOMAIN sessions \cup {sessionID[c]}
          /\ pc'[c] = "encode" =>
               /\ loc'[c].obj.id = sessionID[c]
               /\ loc'[c].obj.live => sessions'[sessionID[c]] \in loc'[c].obj.versions
          /\ (pc[c] = "encode" /\ Responds(c)) =>
               \A f \in StateFields \cup {"updatedAt"} :
                 \E v \in loc[c].obj.versions : Written(c).data[f] = v[f]
    ]_vars

\* c1 under n1 and c2 under n2 each wrote and read: n1 holds SomeState, n2
\* the zero-value state, and each connection read its own
C30_Witness ==
  /\ sessionID["c1"] = "n1"
  /\ sessionID["c2"] = "n2"
  /\ Len(responses["c1"]) = 2
  /\ Len(responses["c2"]) = 2
  /\ requests["c1"][1].type = "state_update"
  /\ requests["c1"][1].state = SomeState
  /\ requests["c2"][1].type = "state_reset"
  /\ requests["c1"][2].type = "state_get"
  /\ requests["c2"][2].type = "state_get"
  /\ responses["c1"][2].data = sessions["n1"]
  /\ responses["c2"][2].data = sessions["n2"]
  /\ sessions["n1"].lastSymbol = "A"
  /\ sessions["n2"].lastSymbol = ""

\* C31: whenever no call holds the session lock, the session table equals
\* the table obtained by applying the calls of setState, updateRange and
\* resetState made so far by all connections one at a time, each whole, in
\* the order in which they held the lock: no write is lost and none is
\* applied in part.
C31_WritesSerializeInLockOrder ==
  sessMu = None => sessions = serial

\* c1 and c2 work on n1: c2's state_update was read and stamped and waits
\* for the lock; meanwhile time passed and c1's range_selection, which held
\* the lock, has been applied whole to the table
C31_Witness ==
  /\ Token("c1") = "n1"
  /\ Token("c2") = "n1"
  /\ pc["c2"] = "set_lock"
  /\ loc["c2"].stamp = NowInit
  /\ sessMu = None
  /\ Len(responses["c1"]) = 1
  /\ responses["c1"][1].type = "range_selection"
  /\ sessions["n1"].updatedAt = NowInit + ClockStep
  /\ sessions["n1"].rangeStart = 3
  /\ sessions["n1"].rangeEnd = 4

\* C37: the state that a state_get or state_reset response carries is a
\* value that the state of the session has had at one instant between the
\* moment the handler obtained it and the response: all its fields are those
\* of one and the same value of the state.
C37_ResponseIsOneSnapshot ==
  [][\A c \in Conns :
       (pc[c] = "encode" /\ Responds(c)) =>
         Written(c).data \in loc[c].obj.versions
    ]_vars

\* the periodic reloader takes a step from position at to position to
Reloader(at, to) == reloads > 0 /\ pc["main"] = at /\ pc'["main"] = to

\* C32: a scheduled reload that fails leaves the store, the timeframe cache
\* and their locks as they were and sends the reloader back to wait for the
\* ticker; a waiting reloader can always start the next reload (within the
\* number of reloads modelled), which is a full one; and the reloader
\* changes the cache only by the reset that follows a load that succeeded.
C32_FailedReloadIsRetried ==
  /\ [][/\ Reloader("scan", "wait") =>
            /\ loc'["main"].err # NoErr
            /\ store' = store
            /\ cache' = cache
            /\ storeMu' = storeMu
            /\ cacheMu' = cacheMu
        /\ (pc'["main"] # pc["main"] /\ cache' # cache) =>
            /\ Reloader("loaded", "wait")
            /\ loc["main"].err = NoErr
            /\ store.priceBySymbol = loc["main"].idx.prices
            /\ cache' = cacheReset
        /\ (pc["main"] = "wait" /\ pc'["main"] = "scan") =>
            /\ loc'["main"].range = NoRange
            /\ reloads' = reloads + 1
       ]_vars
  /\ [](pc["main"] = "wait" /\ reloads < MaxReloads => ENABLED ReloadTick)

\* the first scheduled reload has failed on an unreadable root: the store
\* of the preload and the payload cached for c1 are in place and the
\* reloader waits for the ticker
C32_Witness ==
  /\ reloads = 1
  /\ pc["main"] = "wait"
  /\ loc["main"].err = "stat failed"
  /\ store.startTS > 0
  /\ store.priceBySymbol # EmptyMap
  /\ cache.updatedAt # 0
  /\ Len(responses["c1"]) = 1
  /\ responses["c1"][1].data = cache.payload
  /\ ENABLED ReloadTick

\* process p is in the swap of load or loadRange, between s.mu.Lock() and
\* s.mu.Unlock()
Swapping(p) == pc[p] \in {"w_startTS", "w_endTS", "w_quality", "w_prices"}

\* connection c is inside buildTimeframeResponse
ReadingFrame(c) == pc[c] \in {"tf_startTS", "tf_endTS", "tf_quality", "tf_runlock"}

\* process p is inside s.mu.Lock() ... s.mu.Unlock(): it waits for the
\* readers to leave or is in the swap
Locking(p) == pc[p] = "lock_wait" \/ Swapping(p)

\* C33: a process holds the store lock exclusively exactly while it is in
\* the swap and keeps new readers out exactly from its Lock call to its
\* Unlock, never while it scans the directories; whenever no process is
\* between Lock and Unlock, whatever scans are in progress, every query that
\* is about to take the read lock can take it; and every query that holds
\* the read lock can always take its next step.
C33_ScanDoesNotBlockReaders ==
  /\ \A p \in Procs :
       /\ Swapping(p) <=> storeMu.writer = p
       /\ Locking(p) <=> storeMu.pending = p
  /\ \A c \in Conns :
       /\ ReadingFrame(c) <=> c \in storeMu.readers
       /\ ReadingFrame(c) =>
            ENABLED (\/ TimeframeReadStart(c) \/ TimeframeReadEnd(c)
                     \/ TimeframeReadQuality(c) \/ TimeframeRUnlock(c))
       /\ (\A p \in Procs : ~Locking(p)) =>
            /\ pc[c] = "tf_rlock" => ENABLED TimeframeRLock(c)
            /\ pc[c] = "items" => ENABLED ItemStep(c)
            /\ (AtRead(c) /\ c = "c2") =>
                 ENABLED (\E req \in BlockRequests(c) : PriceOverview(c, req))

\* while the reloader and c1 both scan the directories, c2 is inside
\* buildTimeframeResponse with the read lock, its second query
C33_Witness ==
  /\ pc["main"] = "scan"
  /\ reloads = 1
  /\ pc["c1"] = "scan"
  /\ storeMu.readers = {"c2"}
  /\ pc["c2"] = "tf_quality"
  /\ Len(responses["c2"]) = 1


\* the tick that a row of a header-delimited file stands for: the time
\* column parses and one of last, bid, ask, p holds a price
RowTick(cols, record, symbol) ==
  LET idxTime == IF indexOf(cols, "time_msc") # -1 THEN indexOf(cols, "time_msc")
                 ELSE indexOf(cols, "t")
      idxPrice == indexOf(cols, "p")
      first == parsePrice(record, indexOf(cols, "last"), indexOf(cols, "bid"),
                          indexOf(cols, "ask"))
      price == IF first.ok THEN first
               ELSE IF idxPrice >= 0 /\ idxPrice < Len(record)
               THEN parseFloat(record[idxPrice + 1])
               ELSE first
  IN IF idxTime < 0 \/ idxTime >= Len(record)
        \/ ~parseTimestamp(record[idxTime + 1]).ok \/ ~price.ok
     THEN {}
     ELSE {[symbol |-> symbol, ts |-> parseTimestamp(record[idxTime + 1]).ts,
            price |-> price.v]}

\* the ticks of the well-formed rows after the header of a file
RowTicks(file) ==
  UNION {RowTick(file.lines[1].cols, file.lines[i].rec, file.symbol) :
           i \in {j \in 2..Len(file.lines) : file.lines[j].k = "row"}}

\* a file in the header encoding, with a time column
HeaderFile(file) ==
  /\ Len(file.lines) > 0
  /\ file.lines[1].k = "hdr"
  /\ (indexOf(file.lines[1].cols, "time_msc") # -1 \/ indexOf(file.lines[1].cols, "t") # -1)

\* C35: after a full load every well-formed row after the header of every
\* header-delimited file that the load scanned is among the ticks the load
\* applied.
C35_EveryGoodRowIngested ==
  (storeMu.writer = None /\ Installed # EmptyIndex /\ ~Installed.scanned.range.on) =>
    \A f \in Installed.scanned.disk :
      (HeaderFile(Files[f]) /\ Installed.scanned.roots[Files[f].root] = "ok")
        => RowTicks(Files[f]) \subseteq Installed.applied

\* the store holds the index of a loadRange
RangeInstalled ==
  storeMu.writer = None /\ Installed # EmptyIndex /\ Installed.scanned.range.on

\* the index built from exactly the files inside the window of the installed
\* loadRange
WindowLoad ==
  Scan(FilesInWindow(Installed.scanned), Installed.scanned.roots, NoRange)

\* after a loadRange the store is the index that the loadRange built, with
\* nothing left of the store before it, and every symbol and minute in it
\* comes from a file inside the window
RangeLoadReplaces ==
  (RangeInstalled /\ WindowLoad.err = NoErr) =>
    /\ store = StoreOf(Installed)
    /\ \A sym \in DOMAIN store.priceBySymbol :
         /\ Has(WindowLoad.idx.prices, sym)
         /\ DOMAIN store.priceBySymbol[sym] \subseteq DOMAIN WindowLoad.idx.prices[sym]
    /\ \A sym \in DOMAIN store.qualityBySymbol :
         /\ Has(WindowLoad.idx.quality, sym)
         /\ store.qualityBySymbol[sym] \subseteq WindowLoad.idx.quality[sym]

\* C36: after a successful loadRange the price and coverage indexes of the
\* store are exactly those of the files inside the window: no point of a
\* file outside the window is left, and no point of a file inside is missing.
C36_RangeLoadHoldsWindowFiles ==
  (RangeInstalled /\ WindowLoad.err = NoErr) =>
    /\ store.priceBySymbol = WindowLoad.idx.prices
    /\ store.qualityBySymbol = WindowLoad.idx.quality

(***************************************************************************)
(* SpecFlight: a file is uploaded and the reloader reloads while two       *)
(* connections ask for the timeframe, so that builds are in flight during  *)
(* the swap and the reset.                                                 *)
(***************************************************************************)
NextFlight ==
  \/ Upload(3)
  \/ MainScanOk
  \/ LoadSteps("main")
  \/ MainLoaded
  \/ ReloadTick
  \/ \E c \in Conns :
       \/ ConnOpen(c, "")
       \/ \E req \in CacheRequests : Timeframe(c, req)
       \/ TimeframeLock(c)
       \/ TimeframeRLock(c)
       \/ TimeframeReadStart(c)
       \/ TimeframeReadEnd(c)
       \/ TimeframeReadQuality(c)
       \/ TimeframeRUnlock(c)
       \/ TimeframeDone(c)

SpecFlight == InitCache /\ [][NextFlight]_vars

\* the index src holds at least the files that the index floor holds: it
\* was built by the load that built floor or by a later one
AsOf(src, floor) ==
  \/ floor = EmptyIndex
  \/ /\ src # EmptyIndex
     /\ floor.scanned.disk \subseteq src.scanned.disk

\* C38: a timeframe payload handed out was built from the index of the last
\* reload that was complete (swapped in and followed by the cache reset)
\* when its request's getOrBuild began, or from a later index; and a payload
\* stored in the cache was built from the index of the last complete reload
\* or from a later one, so no stale payload enters the cache after the reset.
C38_NoStalePayloadAfterReset ==
  [][/\ \A c \in Conns :
          /\ (HandsOut(c) /\ pc[c] = "read") => AsOf(cache.src, loc["main"].done)
          /\ (HandsOut(c) /\ pc[c] = "tf_lock") => AsOf(cache.src, loc[c].floor)
          /\ (HandsOut(c) /\ pc[c] = "tf_done") =>
               AsOf(loc[c].viewSrc.startTS, loc[c].floor)
     /\ (cache' # cache /\ cache'.updatedAt # 0) =>
          AsOf(cache'.src, loc["main"].done)]_vars

\* c1's build read the store before the swap of the reload and has not yet
\* stored its payload: the swap is done, the reset waits for the cache lock
C38_Witness ==
  /\ reloads = 1
  /\ pc["main"] = "loaded"
  /\ pc["c1"] = "tf_done"
  /\ cacheMu = "c1"
  /\ loc["c1"].viewSrc.startTS # Installed
  /\ 3 \in Installed.scanned.disk
  /\ pc["c2"] = "tf_lock"

(***************************************************************************)
(* SpecCompute: c1 sends compute_mode requests, some with a start that     *)
(* does not parse, while a root turns unreadable and readable again and c2 *)
(* asks for the timeframe, so that the cache holds a payload.              *)
(***************************************************************************)
ComputeRequests ==
  StoreRequests \cup
    {[Req("compute_mode", "q2") EXCEPT !.start = TimeBad, !.end = TimeNum(120)]}

NextCompute ==
  \/ \E st \in {"ok", "denied"} : SetRoot("r2", st)
  \/ MainScanOk
  \/ MainScanFail
  \/ MainLoaded
  \/ \E p \in {"main", "c1"} : LoadSteps(p)
  \/ \E c \in Conns : ConnOpen(c, "")
  \/ \E req \in ComputeRequests : ComputeMode("c1", req)
  \/ ConnScanOk("c1")
  \/ ConnScanFail("c1")
  \/ ConnLoaded("c1")
  \/ ComputeModeReply("c1")
  \/ \E req \in CacheRequests : Timeframe("c2", req)
  \/ TimeframeLock("c2")
  \/ TimeframeRLock("c2")
  \/ TimeframeReadStart("c2")
  \/ TimeframeReadEnd("c2")
  \/ TimeframeReadQuality("c2")
  \/ TimeframeRUnlock("c2")
  \/ TimeframeDone("c2")

SpecCompute == InitCache /\ [][NextCompute]_vars

\* connection c handles a compute_mode request
InComputeMode(c) == pc[c] # "read" /\ loc[c].req.type = "compute_mode"

\* C39: a compute_mode request with a valid range runs loadFromDirsRange on
\* that range.  Its handler writes nothing before its last step, which
\* writes one response with the request's id: the compute_mode response
\* only from the position after cache.reset(), which is reached only by the
\* reset of the cache, from the position after the swap, which is reached
\* only by the last assignment of the swap of the index scanned for the
\* request's range; the error response, when the load fails, in a step that
\* leaves the store, the cache and the locks as they are, taken by a handler
\* that has not locked the store.
C39_ComputeModeReloadsThenReplies ==
  [][\A c \in Conns :
       /\ (ReadsRequest(c) /\ Read(c).type = "compute_mode") =>
            \/ Responds(c) /\ Written(c).type = "error" /\ pc'[c] = "read"
                 /\ parseStartEndStrings(Read(c).start, Read(c).end, now).err # NoErr
            \/ ~Responds(c) /\ pc'[c] = "scan"
                 /\ LET r == parseStartEndStrings(Read(c).start, Read(c).end, now)
                    IN r.err = NoErr /\ loc'[c].range = Range(r.start, r.end)
       /\ InComputeMode(c) =>
            /\ Responds(c) <=> pc'[c] = "read"
            /\ Responds(c) => Written(c).id = loc[c].req.id
            /\ (Responds(c) /\ Written(c).type = "compute_mode") =>
                 pc[c] = "cm_reply" /\ Written(c).data = StatusOk
            /\ Moves(c, "loaded", "cm_reply") <=> (pc[c] # pc'[c] /\ pc'[c] = "cm_reply")
            /\ Moves(c, "loaded", "cm_reply") => cache' = cacheReset
            /\ Moves(c, "w_prices", "loaded") <=> (pc[c] # pc'[c] /\ pc'[c] = "loaded")
            /\ Moves(c, "w_prices", "loaded") =>
                 /\ store' = StoreOf(loc[c].idx)
                 /\ loc[c].idx.scanned.range = loc[c].range
                 /\ storeMu'.writer = None
            /\ (Responds(c) /\ Written(c).type # "compute_mode") =>
                 /\ pc[c] = "scan"
                 /\ Written(c).type = "error"
                 /\ Written(c).message = "could not load range"
                 /\ Scan(disk, rootState, loc[c].range).err # NoErr
                 /\ store' = store /\ cache' = cache
                 /\ storeMu' = storeMu /\ cacheMu' = cacheMu]_vars

\* c1 is about to reply to a compute_mode whose range load replaced the
\* store and whose reset emptied a cache that held c2's payload; before it,
\* a compute_mode of c1 failed on an unreadable root and was answered with
\* an error
C39_Witness ==
  /\ pc["c1"] = "cm_reply"
  /\ Len(responses["c1"]) = 1
  /\ responses["c1"][1].type = "error"
  /\ responses["c1"][1].message = "could not load range"
  /\ Len(responses["c2"]) = 1
  /\ cache = cacheReset
  /\ Installed.scanned.range = loc["c1"].range
  /\ store = StoreOf(Installed)

(***************************************************************************)
(* SpecLive: both connections send requests of every kind that takes a     *)
(* lock while the reloader reloads.  A handler that has read a request     *)
(* keeps running, and so does a reload that has begun: each of them takes  *)
(* its next step if that step stays possible.  Nothing is assumed about    *)
(* when requests arrive or when the ticker fires.                          *)
(***************************************************************************)
LiveRequests(c) ==
  IF c = "c1"
  THEN {Req("timeframe", "q1"),
        [Req("price_overview_batch", "q1") EXCEPT
           !.symbols = <<"A", "B">>, !.start = TimeNum(60),
           !.end = TimeNum(299), !.resolution = 60],
        [Req("state_update", "q1") EXCEPT !.state = SomeState],
        [Req("range_selection", "q1") EXCEPT
           !.start = TimeNum(120), !.end = TimeNum(180), !.rangeStart = 3,
           !.rangeEnd = 4]}
  ELSE {[Req("compute_mode", "q2") EXCEPT
           !.start = TimeNum(60), !.end = TimeNum(120)],
        [Req("increase_resolution", "q2") EXCEPT
           !.start = TimeNum(60), !.end = TimeNum(180), !.ticks = 2,
           !.symbols = <<"B">>],
        Req("state_get", "q2"),
        Req("state_reset", "q2")}

\* number of requests the two connections of SpecLive send together
MaxLiveRequests == 3

\* connection c reads its next request
ReadSteps(c) ==
  \E req \in LiveRequests(c) :
    \/ Timeframe(c, req)
    \/ BatchStart(c, req)
    \/ ComputeMode(c, req)
    \/ IncreaseResolution(c, req)
    \/ StateGet(c, req)
    \/ StateUpdate(c, req)
    \/ RangeSelection(c, req)
    \/ StateReset(c, req)

\* the steps of the handler of connection c after it has read a request
WorkerSteps(c) ==
  \/ TimeframeLock(c)
  \/ TimeframeRLock(c)
  \/ TimeframeReadStart(c)
  \/ TimeframeReadEnd(c)
  \/ TimeframeReadQuality(c)
  \/ TimeframeRUnlock(c)
  \/ TimeframeDone(c)
  \/ ConnScanOk(c)
  \/ LoadSteps(c)
  \/ ConnLoaded(c)
  \/ ComputeModeReply(c)
  \/ ItemStep(c)
  \/ SessionSteps(c)

\* the steps of the preload and of a reload that has begun
ReloaderSteps ==
  \/ MainScanOk
  \/ LoadSteps("main")
  \/ MainLoaded

NextLive ==
  \/ ReloaderSteps
  \/ (reloads < 1 /\ ReloadTick)
  \/ \E c \in Conns :
       \/ ConnOpen(c, "")
       \/ (Len(requests["c1"]) + Len(requests["c2"]) < MaxLiveRequests
            /\ ReadSteps(c))
       \/ WorkerSteps(c)

SpecLive ==
  /\ InitCache
  /\ [][NextLive]_vars
  /\ WF_vars(ReloaderSteps)
  /\ \A c \in Conns : WF_vars(WorkerSteps(c))

\* the positions at which a process waits for a lock
LockWaits ==
  {"lock", "lock_wait", "loaded", "tf_lock", "tf_rlock", "items", "get_rlock",
   "set_lock", "range_lock", "reset_lock"}

\* C40: no process stays for ever at a position where it waits for the store
\* lock, the cache lock or the session lock (whenever it is there, it later
\* is not); none of the three locks is held for ever; and no connection stays
\* for ever with a request it has read and not answered.
C40_EveryRequestAnswered ==
  /\ \A p \in Procs : \A at \in LockWaits : []<>(pc[p] # at)
  /\ []<>(storeMu.writer = None /\ storeMu.pending = None)
  /\ []<>(storeMu.readers = {})
  /\ []<>(cacheMu = None)
  /\ []<>(sessMu = None)
  /\ \A c \in Conns : []<>(Len(responses[c]) = Len(requests[c]))

\* a chain of waits: c1 holds the cache lock and waits for the store's read
\* lock, the reloader is in its swap, and c2 has swapped the index of its
\* compute_mode in and needs the cache lock for the reset
C40_Witness ==
  /\ pc["c1"] = "tf_rlock"
  /\ cacheMu = "c1"
  /\ storeMu.writer = "main"
  /\ reloads = 1
  /\ pc["c2"] = "loaded"
  /\ loc["c2"].req.type = "compute_mode"

(***************************************************************************)
(* The chart client (App.vue).  client.sockets holds the readyState of     *)
(* every WebSocket the client has created, wsRef the index of the current  *)
(* one (0 is null); wsRequests holds the request ids of the Map, timeouts   *)
(* the ids whose 15 s timer is armed; wire holds the frames in flight.     *)
(* client.promises is the list of promises sendWsRequest has returned,     *)
(* with history: the calls made to resolve and reject, and the number of   *)
(* times the promise's entry was deleted from wsRequests.                  *)
(***************************************************************************)
MaxSockets == 3
MaxPromises == 3

ClientTypes == {"timeframe", "price_overview_batch"}

\* connectWebsocket
connectWebsocket(cl) ==
  IF cl.wsRef # 0 /\ cl.sockets[cl.wsRef] \in {"open", "connecting"}
  THEN cl
  ELSE [cl EXCEPT !.wsReconnectTimer = FALSE,
                  !.sockets = Append(@, "connecting"),
                  !.wsRef = Len(cl.sockets) + 1]

\* scheduleReconnect
scheduleReconnect(cl) == [cl EXCEPT !.wsReconnectTimer = TRUE]

\* a call of resolve or reject of promise k
settle(cl, k, call) ==
  [cl EXCEPT !.promises[k].calls = Append(@, call),
             !.promises[k].stage = "done"]

\* the promise whose entry is keyed by request id
PromiseOf(cl, id) == CHOOSE k \in DOMAIN cl.promises : cl.promises[k].id = id

\* wsRequests.delete(id)
deleteEntry(cl, id) ==
  IF id \notin cl.wsRequests THEN cl
  ELSE [cl EXCEPT !.wsRequests = @ \ {id},
                  !.promises[PromiseOf(cl, id)].removed = @ + 1]

\* clearTimeout(entry.timeout)
clearEntryTimeout(cl, id) == [cl EXCEPT !.timeouts = @ \ {id}]

\* sendWsRequest after waitForWsOpen has resolved: the id is made, the
\* entry is set with its timeout and the request is sent
sendNow(cl, k) ==
  LET id == cl.wsRequestSeq + 1 IN
  [cl EXCEPT !.wsRequestSeq = id,
             !.wsRequests = @ \cup {id},
             !.timeouts = @ \cup {id},
             !.promises[k].id = id,
             !.promises[k].stage = "pending",
             !.wire = @ \cup {[sock |-> cl.promises[k].sock, dir |-> "up",
                               request_id |-> id, type |-> cl.promises[k].type]}]

\* sendWsRequest: waitForWsOpen rejects without a socket or with one that is
\* closing or closed, resolves at once with an open one and waits with one
\* that is connecting
sendWsRequest(cl, type) ==
  LET k == Len(cl.promises) + 1
      g == cl.wsRef
      made == [cl EXCEPT !.promises =
                 Append(@, [type |-> type, sock |-> g, stage |-> "wait",
                            id |-> 0, calls |-> << >>, removed |-> 0])]
  IN IF g = 0 THEN settle(made, k, "reject")
     ELSE IF cl.sockets[g] = "open" THEN sendNow(made, k)
     ELSE IF cl.sockets[g] = "connecting" THEN made
     ELSE settle(made, k, "reject")

\* the promises that wait in waitForWsOpen for socket g
Waiters(cl, g) ==
  {k \in DOMAIN cl.promises :
     cl.promises[k].stage = "wait" /\ cl.promises[k].sock = g}

\* the handleOpen listeners of socket g run in the order they were added
RECURSIVE openWaiters(_, _, _)
openWaiters(cl, g, k) ==
  IF k > Len(cl.promises) THEN cl
  ELSE openWaiters(IF k \in Waiters(cl, g) THEN sendNow(cl, k) ELSE cl, g, k + 1)

\* the handleError listeners of socket g
failWaiters(cl, g) ==
  [cl EXCEPT !.promises =
     [k \in DOMAIN @ |->
        IF k \in Waiters(cl, g)
        THEN [@[k] EXCEPT !.calls = Append(@, "reject"), !.stage = "done"]
        ELSE @[k]]]

\* the message listener of a socket, for a frame with this request id and type
onMessage(cl, id, type) ==
  IF id = 0 \/ id \notin cl.wsRequests THEN cl
  ELSE settle(clearEntryTimeout(deleteEntry(cl, id), id), PromiseOf(cl, id),
              IF type = "error" THEN "reject" ELSE "resolve")

\* closeWebsocket: wsRequests.forEach, every entry's timeout is cleared and
\* its promise rejected
RECURSIVE rejectAll(_, _)
rejectAll(cl, ids) ==
  IF ids = {} THEN cl
  ELSE LET id == CHOOSE i \in ids : \A j \in ids : i <= j IN
       rejectAll(settle(clearEntryTimeout(cl, id), PromiseOf(cl, id), "reject"),
                 ids \ {id})

\* closeWebsocket: wsRequests.clear()
RECURSIVE clearEntries(_, _)
clearEntries(cl, ids) ==
  IF ids = {} THEN cl
  ELSE LET id == CHOOSE i \in ids : TRUE IN
       clearEntries(deleteEntry(cl, id), ids \ {id})

\* closeWebsocket
closeWebsocket(cl) ==
  LET g == cl.wsRef
      cleared == clearEntries(rejectAll([cl EXCEPT !.wsReconnectTimer = FALSE],
                                        cl.wsRequests),
                              cl.wsRequests)
  IN [cleared EXCEPT
        !.sockets = IF g # 0 /\ @[g] \in {"connecting", "open"}
                    THEN [@ EXCEPT ![g] = "closing"] ELSE @,
        !.wsRef = 0]

ServerVars == <<envVars, now, storeVars, cacheVars, sessVars, pc, loc, reloads,
                connVars, applyVars>>

\* onMounted: connectWebsocket(); fetchTimeframe()
OnMounted ==
  /\ client.phase = "created"
  /\ client' = [sendWsRequest(connectWebsocket(client), "timeframe")
                  EXCEPT !.phase = "mounted"]
  /\ UNCHANGED ServerVars

\* onBeforeUnmount: closeWebsocket()
OnBeforeUnmount ==
  /\ client.phase = "mounted"
  /\ client' = [closeWebsocket(client) EXCEPT !.phase = "unmounted"]
  /\ UNCHANGED ServerVars

\* the page asks for data: fetchTimeframe, fetchPriceOverviewBatch
ClientSend(type) ==
  /\ client.phase = "mounted"
  /\ Len(client.promises) < MaxPromises
  /\ client' = sendWsRequest(client, type)
  /\ UNCHANGED ServerVars

\* resetSession, requestMoreTicks: connectWebsocket() and then the request
ClientConnectSend(type) ==
  /\ client.phase = "mounted"
  /\ Len(client.promises) < MaxPromises
  /\ Len(client.sockets) < MaxSockets
  /\ client' = sendWsRequest(connectWebsocket(client), type)
  /\ UNCHANGED ServerVars

\* the reconnect timer fires
ReconnectTimer ==
  /\ client.wsReconnectTimer
  /\ Len(client.sockets) < MaxSockets
  /\ client' = connectWebsocket([client EXCEPT !.wsReconnectTimer = FALSE])
  /\ UNCHANGED ServerVars

\* the open event of socket g: requestState() sends state_get, then the
\* requests that waited for the socket are sent
SocketOpen(g) ==
  /\ g \in DOMAIN client.sockets
  /\ client.sockets[g] = "connecting"
  /\ Len(client.promises) < MaxPromises
  /\ LET opened == [client EXCEPT !.sockets[g] = "open"]
     IN client' = openWaiters(sendWsRequest(opened, "state_get"), g, 1)
  /\ UNCHANGED ServerVars

\* the error and close events of socket g, lost or closed: scheduleReconnect
\* and, for the requests waiting for the socket, handleError
SocketLost(g) ==
  /\ g \in DOMAIN client.sockets
  /\ client.sockets[g] \in {"connecting", "open", "closing"}
  /\ LET closed == [client EXCEPT !.sockets[g] = "closed",
                                  !.wire = {m \in @ : m.sock # g}]
     IN client' = scheduleReconnect(failWaiters(closed, g))
  /\ UNCHANGED ServerVars

\* the 5 s timer of waitForWsOpen
WaitTimeout(k) ==
  /\ k \in DOMAIN client.promises
  /\ client.promises[k].stage = "wait"
  /\ client' = settle(client, k, "reject")
  /\ UNCHANGED ServerVars

\* the 15 s timer of an entry fires
RequestTimeout(id) ==
  /\ id \in client.timeouts
  /\ client' = settle(deleteEntry(clearEntryTimeout(client, id), id),
                      PromiseOf(client, id), "reject")
  /\ UNCHANGED ServerVars

\* the server answers a request: every response carries the request's id
ServerReply(m, type) ==
  /\ m \in client.wire
  /\ m.dir = "up"
  /\ client' = [client EXCEPT !.wire = (@ \ {m}) \cup
                  {[sock |-> m.sock, dir |-> "down",
                    request_id |-> m.request_id, type |-> type]}]
  /\ UNCHANGED ServerVars

\* the message event of an open socket
ClientMessage(m) ==
  /\ m \in client.wire
  /\ m.dir = "down"
  /\ client.sockets[m.sock] = "open"
  /\ client' = onMessage([client EXCEPT !.wire = @ \ {m}], m.request_id, m.type)
  /\ UNCHANGED ServerVars

NextClient ==
  \/ OnMounted
  \/ OnBeforeUnmount
  \/ \E type \in ClientTypes : ClientSend(type)
  \/ ClientConnectSend("state_reset")
  \/ ReconnectTimer
  \/ \E g \in 1..MaxSockets : SocketOpen(g)
  \/ \E g \in 1..MaxSockets : SocketLost(g)
  \/ \E k \in 1..MaxPromises : WaitTimeout(k)
  \/ \E id \in 1..MaxPromises : RequestTimeout(id)
  \/ \E m \in client.wire, type \in {"state", "error"} : ServerReply(m, type)
  \/ \E m \in client.wire : ClientMessage(m)

SpecClient == InitSession /\ [][NextClient]_vars

\* every promise of sendWsRequest has had at most one call of resolve or
\* reject and its entry at most one removal; it is in wsRequests, with its
\* timeout armed, exactly while it is pending; once it is done it has had
\* exactly one call and, if it ever had an entry, exactly one removal
ClientOnce ==
  /\ client.timeouts = client.wsRequests
  /\ client.wsRequests = {client.promises[k].id : k \in
         {j \in DOMAIN client.promises : client.promises[j].stage = "pending"}}
  /\ \A k \in DOMAIN client.promises :
       LET q == client.promises[k] IN
       /\ q.stage # "done" => q.calls = << >> /\ q.removed = 0
       /\ q.stage = "wait" => q.id = 0
       /\ q.stage = "pending" => q.id # 0
       /\ q.stage = "done" =>
            /\ Len(q.calls) = 1
            /\ q.removed = (IF q.id = 0 THEN 0 ELSE 1)
       /\ \A j \in DOMAIN client.promises :
            (j # k /\ q.id # 0) => client.promises[j].id # q.id

\* a frame whose request id is not pending changes nothing in the client
\* but the frames in flight
ClientIgnoresUnknown ==
  [][\A m \in client.wire :
       (m.dir = "down" /\ m \notin client'.wire /\ client.sockets[m.sock] = "open"
        /\ client'.sockets = client.sockets /\ m.request_id \notin client.wsRequests)
       => client' = [client EXCEPT !.wire = client'.wire]]_vars

\* C34: every pending request id is removed from wsRequests exactly once and
\* its promise settled exactly once, and it is removed when its connection
\* is lost: no entry is pending on a socket that has closed.
C34_PendingRemovedOnce ==
  /\ ClientOnce
  /\ \A k \in DOMAIN client.promises :
       client.promises[k].stage = "pending" =>
         client.sockets[client.promises[k].sock] = "open"

=============================================================================
